---- MODULE Spec2Model ----
(***************************************************************************)
(* Real-time violation-detection and alerting pipeline of GausControl:     *)
(* MqttClient.handleMessage -> MqttSpeedProcessor.handleSpeedMessage ->    *)
(* SpeedProcessor.processSpeedData -> AlertSystem.processViolation ->      *)
(* MqttSpeedProcessor.generateAlerts.                                      *)
(*                                                                         *)
(* One handler instance exists per delivered message.  JavaScript runs a   *)
(* handler without interruption up to its next await; every await on I/O   *)
(* (persistence, publish) and the await on the strategy promise is a point *)
(* where other handlers and the clock may interleave.                      *)
(***************************************************************************)
EXTENDS Integers, Sequences, FiniteSets, TLC

\* ------------------------------------------------------------------ bounds
MaxMsgs == 2
MaxTicks == 1
MaxFaults == 1
MaxStarts == 2
MaxAttempts == 12

\* ------------------------------------------------------- program constants
speedLimit == 60
consecutiveLimit == 3
suppressionWindow == 30000
maxHistorySize == 1000
HistoryCapacity == 10
MinIdLength == 3
MaxIdLength == 20
MaxSpeed == 500
maxReconnectAttempts == 10

\* ------------------------------------------------------------- input sets
VehicleIds == {"VEH001", "VEH002"}
TickSteps == {29999, 30000, 30001}

\* JavaScript values of the two required payload fields, tagged by typeof.
Undefined == [type |-> "undefined", str |-> "", num |-> 0]
Str(s) == [type |-> "string", str |-> s, num |-> 0]
Num(n) == [type |-> "number", str |-> "", num |-> n]

\* The text toISOString() gives for the instant t, and the Date of the instant t.
IsoText(t) == [type |-> "string", str |-> "iso", num |-> t]
DateOf(t) == [type |-> "date", str |-> "", num |-> t]

\* A location object with the members lat and lng (Undefined: member absent).
Loc(lat, lng) == [type |-> "object", lat |-> lat, lng |-> lng]

\* Number(x) for the values that occur: a number is itself, a Date is its time
\* value, the string "95" is 95.
ToNumber(x) == IF x.type \in {"number", "date"} THEN x.num ELSE IF x.str = "95" THEN 95 ELSE 0

\* Number(x) is NaN: undefined, and text that is not a numeric literal (the
\* ISO text of a date is none).
IsNaN(x) == x.type = "undefined" \/ (x.type = "string" /\ x.str \notin {"", "95"})

\* x < y of JavaScript for operands that are not both strings: both are
\* converted to numbers, and a comparison with NaN is false.
LessThan(x, y) == ~IsNaN(x) /\ ~IsNaN(y) /\ ToNumber(x) < ToNumber(y)

\* What arrives on the wire: the text is empty, is truncated JSON, or is the
\* JSON text of an object with the given vehicleId and speed members and no
\* timestamp and location members.
Wire(form, vehicleId, speed) ==
    [form |-> form, vehicleId |-> vehicleId, speed |-> speed,
     timestamp |-> Undefined, location |-> Undefined]

\* The same text with timestamp and location members.
WithMembers(w, timestamp, location) ==
    [w EXCEPT !.timestamp = timestamp, !.location = location]
Readings == {<<"VEH001", 60>>, <<"VEH001", 65>>, <<"VEH001", 95>>, <<"VEH002", 65>>}
ValidPayloads == {Wire("object", Str(r[1]), Num(r[2])) : r \in Readings}
MalformedPayloads ==
    { Wire("empty", Undefined, Undefined),
      Wire("truncated", Str("VEH001"), Undefined),
      Wire("object", Undefined, Num(65)),
      Wire("object", Str("VEH001"), Undefined),
      Wire("object", Str("VEH001"), Str("95")),
      Wire("object", Str("VEH001"), Num(501)),
      Wire("object", Str("VEH001"), Num(0 - 1)),
      Wire("object", Str("AB"), Num(95)) }
Payloads == ValidPayloads \cup MalformedPayloads

\* String.length and /^[A-Za-z0-9]+$/ on the identifiers that occur.
StrLength(s) == CASE s = "" -> 0 [] s = "AB" -> 2 [] OTHER -> 6
IsAlphanumeric(s) == s \in {"AB", "VEH001", "VEH002"}

Null == [null |-> TRUE]

\* ------------------------------------------------------------------ state
VARIABLES
    now,            \* Date.now(), in ms
    ticks,          \* steps that found the clock advanced
    faults,         \* rejected persistence writes and publishes so far
    budget,         \* messages that may still arrive in this run
    hs,             \* one handler record per message handed to handleSpeedMessage
    vehicleStates,  \* SpeedProcessor.vehicleStates
    processedCount, \* SpeedProcessor.processedCount
    violationCount, \* SpeedProcessor.violationCount
    messageCount,   \* MqttSpeedProcessor.messageCount
    errorCount,     \* MqttSpeedProcessor.errorCount
    alertHistory,   \* AlertSystem.alertHistory
    activeAlerts,   \* AlertSystem.activeAlerts
    accepted,       \* readings in the order updateVehicleState applied them
    saveLog,        \* calls of SpeedRecordRepository.saveSpeedRecord
    alertSaveLog,   \* calls of AlertRepository.saveAlert
    published       \* messages the broker took on the topic vehicles/alerts

\* The transport and the processor's life cycle.
VARIABLES
    clients,            \* the mqtt client objects created so far; the last is MqttClient.client
    isConnected,        \* MqttClient.isConnected
    reconnectAttempts,  \* MqttClient.reconnectAttempts
    subscriptions,      \* MqttClient.subscriptions (its topics)
    messageHandlers,    \* MqttClient.messageHandlers (its topics)
    isRunning,          \* MqttSpeedProcessor.isRunning
    call,               \* where a call of stop() is suspended
    retained,           \* the status the broker retains on the system health topic
    shutdown,           \* what the last call of MqttClient.disconnect has done
    starts,             \* calls of start() so far
    startCalls,         \* per call of start(): where it is suspended, what it has done
    repositories        \* speedRepository and alertRepository: "new", "open", "closed"

\* Maintenance operations and the alerts table.
VARIABLES
    swept,              \* the last call of SpeedProcessor.cleanupOldStates
    alertRows           \* the rows of the table alerts

\* The alert engine's notification channels and the processor's configuration.
VARIABLES
    notified,           \* per handler, the channels sendNotifications has attempted
    config              \* SpeedProcessor.speedLimit and SpeedProcessor.consecutiveLimit

pipeline == <<now, ticks, faults, budget, hs, vehicleStates, processedCount, violationCount,
              messageCount, errorCount, alertHistory, activeAlerts, accepted, saveLog,
              alertSaveLog, published>>

transport == <<clients, isConnected, reconnectAttempts, subscriptions, messageHandlers,
               isRunning, call, retained, shutdown, starts, startCalls, repositories>>

maintenance == <<swept, alertRows>>

engine == <<notified, config>>

vars == <<pipeline, transport, maintenance, engine>>

\* MqttClient.client: "none" before the first connect(), afterwards the state
\* of the object the last connect() created.
client == IF clients = << >> THEN "none" ELSE clients[Len(clients)].state

\* ----------------------------------------------------------- normalisation
\* MqttClient.handleMessage: JSON.parse of the wire text; text that does not
\* parse is handed on as the string itself.
ClientParse(w) ==
    IF w.form = "object"
    THEN [typeof |-> "object", text |-> "", vehicleId |-> w.vehicleId, speed |-> w.speed,
          timestamp |-> w.timestamp, location |-> w.location]
    ELSE [typeof |-> "string", text |-> w.form, vehicleId |-> Undefined, speed |-> Undefined,
          timestamp |-> Undefined, location |-> Undefined]

\* JavaScript truthiness of a member: an object, a number other than 0, a
\* string other than ''.
Truthy(x) ==
    \/ x.type = "object"
    \/ (x.type = "number" /\ x.num # 0)
    \/ (x.type = "string" /\ x.str # "")

\* Variant: the speed is only range-checked after conversion to a number, not
\* required to be one.
parseSpeedMessage_coerces(message, t) ==
    IF message.typeof = "string"
    THEN Null
    ELSE IF ~Truthy(message.vehicleId)
    THEN Null
    ELSE IF ToNumber(message.speed) < 0 \/ ToNumber(message.speed) > MaxSpeed
    THEN Null
    ELSE [vehicleId |-> message.vehicleId.str, speed |-> ToNumber(message.speed),
          timestamp |-> IF Truthy(message.timestamp) THEN message.timestamp ELSE IsoText(t),
          location |-> IF Truthy(message.location) THEN message.location ELSE Null]

\* MqttSpeedProcessor.parseSpeedMessage: Null for everything it refuses,
\* otherwise the normalised structure.
parseSpeedMessage(message, t) ==
    IF message.typeof = "string"
    THEN Null    \* empty text, or JSON.parse throws and the catch returns null
    ELSE IF ~Truthy(message.vehicleId) \/ message.speed.type # "number"
    THEN Null
    ELSE IF ToNumber(message.speed) < 0 \/ ToNumber(message.speed) > MaxSpeed
    THEN Null
    ELSE [vehicleId |-> message.vehicleId.str, speed |-> ToNumber(message.speed),
          timestamp |-> IF Truthy(message.timestamp) THEN message.timestamp ELSE IsoText(t),
          location |-> IF Truthy(message.location) THEN message.location ELSE Null]

\* new Date(text) is a valid date.
ParsesAsDate(x) == x.type = "string" /\ x.str = "iso"

\* a || b for the members lat and latitude (lng and longitude) of a location
\* whose latitude and longitude members are absent.
Coordinate(x) == IF Truthy(x) THEN x ELSE Undefined

InRange(x, bound) == x.type = "number" /\ x.num >= 0 - bound /\ x.num <= bound

\* SimpleSpeedValidator.validateSpeedData on the structure parseSpeedMessage
\* returns (its timestamp is never falsy): the checks of vehicleId, speed,
\* timestamp and location, and the normalised data.  A timestamp text that is
\* no date is an error; text that is one and a number become the ISO text of
\* the instant.  A location with one of lat and lng must have both as numbers
\* in range.
validateSpeedData(data) ==
    LET idOk == /\ data.vehicleId # ""
                /\ StrLength(data.vehicleId) >= MinIdLength
                /\ StrLength(data.vehicleId) <= MaxIdLength
                /\ IsAlphanumeric(data.vehicleId)
        speedOk == data.speed >= 0 /\ data.speed <= MaxSpeed
        timestampOk == data.timestamp.type = "number" \/ ParsesAsDate(data.timestamp)
        hasCoordinate == /\ data.location # Null
                         /\ (data.location.lat # Undefined \/ data.location.lng # Undefined)
        locationOk == hasCoordinate =>
                        /\ InRange(Coordinate(data.location.lat), 90)
                        /\ InRange(Coordinate(data.location.lng), 180)
    IN  [isValid |-> idOk /\ speedOk /\ timestampOk /\ locationOk,
         data |-> [data EXCEPT
                     !.timestamp = IsoText(data.timestamp.num),
                     !.location = IF hasCoordinate
                                  THEN Loc(Coordinate(data.location.lat),
                                           Coordinate(data.location.lng))
                                  ELSE data.location]]

\* --------------------------------------------------------- vehicle state
NewVehicleState(vehicleId) ==
    [vehicleId |-> vehicleId, lastSeen |-> Null, consecutiveViolations |-> 0,
     totalViolations |-> 0, maxSpeed |-> 0, recordCount |-> 0, speedHistory |-> << >>]

Max(a, b) == IF a >= b THEN a ELSE b

\* Variant: a reading at or under the limit leaves the streak counter alone.
UpdatedState_keepsStreak(states, speedData) ==
    LET currentState == IF speedData.vehicleId \in DOMAIN states
                        THEN states[speedData.vehicleId]
                        ELSE NewVehicleState(speedData.vehicleId)
        pushed == Append(currentState.speedHistory, speedData.speed)
        violating == speedData.speed > config.speedLimit
    IN  [vehicleId |-> currentState.vehicleId,
         lastSeen |-> speedData.timestamp,
         recordCount |-> currentState.recordCount + 1,
         maxSpeed |-> Max(currentState.maxSpeed, speedData.speed),
         speedHistory |-> IF Len(pushed) > HistoryCapacity THEN Tail(pushed) ELSE pushed,
         consecutiveViolations |-> IF violating THEN currentState.consecutiveViolations + 1
                                   ELSE currentState.consecutiveViolations,
         totalViolations |-> IF violating THEN currentState.totalViolations + 1
                             ELSE currentState.totalViolations]

\* Variant: at capacity the new entry is dropped, not the oldest one.
UpdatedState_dropsNewest(states, speedData) ==
    LET currentState == IF speedData.vehicleId \in DOMAIN states
                        THEN states[speedData.vehicleId]
                        ELSE NewVehicleState(speedData.vehicleId)
        pushed == Append(currentState.speedHistory, speedData.speed)
        violating == speedData.speed > config.speedLimit
    IN  [vehicleId |-> currentState.vehicleId,
         lastSeen |-> speedData.timestamp,
         recordCount |-> currentState.recordCount + 1,
         maxSpeed |-> Max(currentState.maxSpeed, speedData.speed),
         speedHistory |-> IF Len(pushed) > HistoryCapacity
                          THEN SubSeq(pushed, 1, HistoryCapacity) ELSE pushed,
         consecutiveViolations |-> IF violating THEN currentState.consecutiveViolations + 1 ELSE 0,
         totalViolations |-> IF violating THEN currentState.totalViolations + 1
                             ELSE currentState.totalViolations]

\* Variant: a reading over the limit raises the streak counter only.
UpdatedState_streakOnly(states, speedData) ==
    LET currentState == IF speedData.vehicleId \in DOMAIN states
                        THEN states[speedData.vehicleId]
                        ELSE NewVehicleState(speedData.vehicleId)
        pushed == Append(currentState.speedHistory, speedData.speed)
        violating == speedData.speed > config.speedLimit
    IN  [vehicleId |-> currentState.vehicleId,
         lastSeen |-> speedData.timestamp,
         recordCount |-> currentState.recordCount + 1,
         maxSpeed |-> Max(currentState.maxSpeed, speedData.speed),
         speedHistory |-> IF Len(pushed) > HistoryCapacity THEN Tail(pushed) ELSE pushed,
         consecutiveViolations |-> IF violating THEN currentState.consecutiveViolations + 1 ELSE 0,
         totalViolations |-> currentState.totalViolations]

\* The record SpeedProcessor.updateVehicleState writes for one reading, given
\* the map it reads.
UpdatedState(states, speedData) ==
    LET currentState == IF speedData.vehicleId \in DOMAIN states
                        THEN states[speedData.vehicleId]
                        ELSE NewVehicleState(speedData.vehicleId)
        pushed == Append(currentState.speedHistory, speedData.speed)
        violating == speedData.speed > config.speedLimit
    IN  [vehicleId |-> currentState.vehicleId,
         lastSeen |-> speedData.timestamp,
         recordCount |-> currentState.recordCount + 1,
         maxSpeed |-> Max(currentState.maxSpeed, speedData.speed),
         speedHistory |-> IF Len(pushed) > HistoryCapacity THEN Tail(pushed) ELSE pushed,
         consecutiveViolations |-> IF violating THEN currentState.consecutiveViolations + 1 ELSE 0,
         totalViolations |-> IF violating THEN currentState.totalViolations + 1
                             ELSE currentState.totalViolations]

\* Variant: the read and the write are separate steps, and the write of a
\* handler that is still in flight for the same vehicle lands after this one.
updateVehicleState_interleaved(states, speedData) ==
    IF \E g \in DOMAIN hs : /\ hs[g].pc = "awaitSave"
                            /\ hs[g].speedData.vehicleId = speedData.vehicleId
    THEN states
    ELSE [v \in DOMAIN states \cup {speedData.vehicleId} |->
            IF v = speedData.vehicleId THEN UpdatedState(states, speedData) ELSE states[v]]

\* Variant: once a persistence write of the vehicle was rejected, its state is
\* started afresh.
updateVehicleState_afterFailure(states, speedData) ==
    LET base == IF \E g \in DOMAIN hs : /\ hs[g].save = "failed"
                                       /\ hs[g].speedData.vehicleId = speedData.vehicleId
                THEN << >>
                ELSE states
    IN  [v \in DOMAIN states \cup {speedData.vehicleId} |->
            IF v = speedData.vehicleId THEN UpdatedState(base, speedData) ELSE states[v]]

\* SpeedProcessor.updateVehicleState: the map after vehicleStates.set.
updateVehicleState(states, speedData) ==
    [v \in DOMAIN states \cup {speedData.vehicleId} |->
        IF v = speedData.vehicleId THEN UpdatedState(states, speedData) ELSE states[v]]

\* ------------------------------------------------------------ classifier
\* Variant: the excess is taken as a share of the speed, not of the limit.
Severity_shareOfSpeed(speed) ==
    LET exceed == speed - config.speedLimit
    IN  IF exceed * 100 > 50 * speed THEN "CRITICAL"
        ELSE IF exceed * 100 > 25 * speed THEN "HIGH"
        ELSE IF exceed * 100 > 10 * speed THEN "MEDIUM"
        ELSE "LOW"

\* Variant: the thresholds are inclusive.
Severity_inclusive(speed) ==
    LET exceed == speed - config.speedLimit
    IN  IF exceed * 100 >= 50 * config.speedLimit THEN "CRITICAL"
        ELSE IF exceed * 100 >= 25 * config.speedLimit THEN "HIGH"
        ELSE IF exceed * 100 >= 10 * config.speedLimit THEN "MEDIUM"
        ELSE "LOW"

\* SpeedProcessor.checkSpeedViolation, the severity: exceedPercentage > k is
\* (speed - limit) / limit * 100 > k, compared here without the division.
Severity(speed) ==
    LET exceed == speed - config.speedLimit
    IN  IF exceed * 100 > 50 * config.speedLimit THEN "CRITICAL"
        ELSE IF exceed * 100 > 25 * config.speedLimit THEN "HIGH"
        ELSE IF exceed * 100 > 10 * config.speedLimit THEN "MEDIUM"
        ELSE "LOW"

\* Variant: the streak flag is set only after the threshold is passed.
checkSpeedViolation_afterThreshold(speedData, vehicleState) ==
    IF speedData.speed <= config.speedLimit
    THEN Null
    ELSE [vehicleId |-> speedData.vehicleId,
          speed |-> speedData.speed,
          exceedAmount |-> speedData.speed - config.speedLimit,
          severity |-> Severity(speedData.speed),
          isConsecutive |-> vehicleState.consecutiveViolations > config.consecutiveLimit,
          consecutiveCount |-> vehicleState.consecutiveViolations]

\* Variant: a reading at the limit is a violation.
checkSpeedViolation_atLimit(speedData, vehicleState) ==
    IF speedData.speed < config.speedLimit
    THEN Null
    ELSE [vehicleId |-> speedData.vehicleId,
          speed |-> speedData.speed,
          exceedAmount |-> speedData.speed - config.speedLimit,
          severity |-> Severity(speedData.speed),
          isConsecutive |-> vehicleState.consecutiveViolations >= config.consecutiveLimit,
          consecutiveCount |-> vehicleState.consecutiveViolations]

\* SpeedProcessor.checkSpeedViolation: Null when speed <= limit.
checkSpeedViolation(speedData, vehicleState) ==
    IF speedData.speed <= config.speedLimit
    THEN Null
    ELSE [vehicleId |-> speedData.vehicleId,
          speed |-> speedData.speed,
          exceedAmount |-> speedData.speed - config.speedLimit,
          severity |-> Severity(speedData.speed),
          isConsecutive |-> vehicleState.consecutiveViolations >= config.consecutiveLimit,
          consecutiveCount |-> vehicleState.consecutiveViolations]

\* ---------------------------------------------------------- alert engine
\* Variant: the window is compared in seconds.
shouldSuppressAlert_seconds(active, violation, t) ==
    IF violation.vehicleId \notin DOMAIN active
    THEN FALSE
    ELSE t - active[violation.vehicleId].lastAlert < suppressionWindow \div 1000

\* Variant: only an alert of the same severity suppresses.
shouldSuppressAlert_sameSeverity(active, violation, t) ==
    IF violation.vehicleId \notin DOMAIN active
    THEN FALSE
    ELSE /\ active[violation.vehicleId].severity = violation.severity
         /\ t - active[violation.vehicleId].lastAlert < suppressionWindow

\* Variant: the most recent alert of any vehicle suppresses.
shouldSuppressAlert_anyVehicle(active, violation, t) ==
    \E v \in DOMAIN active : t - active[v].lastAlert < suppressionWindow

\* AlertSystem.shouldSuppressAlert, with Date.now() = t.
shouldSuppressAlert(active, violation, t) ==
    IF violation.vehicleId \notin DOMAIN active
    THEN FALSE
    ELSE t - active[violation.vehicleId].lastAlert < suppressionWindow

\* Variant: the streak flag is looked at before the severity.
determineStrategy_streakFirst(violation) ==
    IF violation.isConsecutive THEN "consecutive"
    ELSE IF violation.severity = "CRITICAL" THEN "critical"
    ELSE "simple"

\* AlertSystem.determineStrategy and the data the chosen strategy returns.
determineStrategy(violation) ==
    IF violation.severity = "CRITICAL" THEN "critical"
    ELSE IF violation.isConsecutive THEN "consecutive"
    ELSE "simple"

StrategyData(name) ==
    CASE name = "critical" -> [priority |-> "CRITICAL", escalated |-> TRUE]
      [] name = "consecutive" -> [priority |-> "HIGH", escalated |-> TRUE]
      [] OTHER -> [priority |-> "NORMAL", escalated |-> FALSE]

\* AlertSystem.createAlert, with Date.now() = t; by names the handler that
\* creates the alert.
createAlert(violation, strategy, t, by) ==
    [id |-> <<t, violation.vehicleId>>,
     type |-> "SPEED_VIOLATION",
     severity |-> violation.severity,
     vehicleId |-> violation.vehicleId,
     speed |-> violation.speed,
     createdAt |-> t,
     isConsecutive |-> violation.isConsecutive,
     consecutiveCount |-> violation.consecutiveCount,
     status |-> "ACTIVE",
     priority |-> StrategyData(strategy).priority,
     escalated |-> StrategyData(strategy).escalated,
     by |-> by]

\* AlertSystem.storeAlert: the history (newest first, capped) ...
StoredHistory(history, alert) ==
    LET grown == <<alert>> \o history
    IN  IF Len(grown) > maxHistorySize THEN SubSeq(grown, 1, Len(grown) - 1) ELSE grown

\* ... and the active-alert map, with Date.now() = t.
StoredActive(active, alert, t) ==
    [v \in DOMAIN active \cup {alert.vehicleId} |->
        IF v = alert.vehicleId
        THEN [lastAlert |-> t, alertId |-> alert.id, severity |-> alert.severity]
        ELSE active[v]]

\* Variant: a suppressed violation restarts the window.
SuppressedActive_refreshes(active, violation, t) ==
    [active EXCEPT ![violation.vehicleId].lastAlert = t]

\* AlertSystem.processViolation when shouldSuppressAlert is true: it returns
\* before storeAlert; the active-alert map after it, with Date.now() = t.
SuppressedActive(active, violation, t) == active

\* Variant: only readings over the limit are handed to persistence.
RequestedSaves_violationsOnly(log, h, data) ==
    IF data.speed > config.speedLimit
    THEN Append(log, [by |-> h, vehicleId |-> data.vehicleId, speed |-> data.speed])
    ELSE log

\* SpeedProcessor.processSpeedData, the call of dataStore.saveSpeedRecord by
\* handler h: the calls made so far.
RequestedSaves(log, h, data) ==
    Append(log, [by |-> h, vehicleId |-> data.vehicleId, speed |-> data.speed])

\* ------------------------------------------------------- outbound messages
\* A message on vehicles/alerts: its type member and the members the
\* properties read; severity "none" and consecutiveCount -1 stand for a member
\* the message does not have.
\* MqttClient.publishAlert(alert), called by AlertSystem.sendNotifications:
\* the Alert itself plus publishedAt.
AlertPayload(alert) ==
    [by |-> alert.by, type |-> alert.type, vehicleId |-> alert.vehicleId,
     speed |-> alert.speed, severity |-> alert.severity,
     consecutiveCount |-> alert.consecutiveCount]

\* MqttSpeedProcessor.publishAlert of the SIMPLE message of generateAlerts.
SimplePayload(h, violation) ==
    [by |-> h, type |-> "SIMPLE", vehicleId |-> violation.vehicleId,
     speed |-> violation.speed, severity |-> "none", consecutiveCount |-> 0 - 1]

\* MqttSpeedProcessor.publishAlert of the CRITICAL message of generateAlerts.
CriticalPayload(h, violation) ==
    [by |-> h, type |-> "CRITICAL", vehicleId |-> violation.vehicleId,
     speed |-> violation.speed, severity |-> "none",
     consecutiveCount |-> violation.consecutiveCount]

\* MqttClient.publish: the topic's messages after a publish that resolved
\* (ok) or rejected.
Publish(topic, message, ok) == IF ok THEN topic \cup {message} ELSE topic

\* ----------------------------------------------------------- initial state
\* Readings processed to the end before the run starts, in the second of the
\* two initial states: VEH001 has sent 65 km/h at time 0 and again 30001 ms later.
Earlier == <<[vehicleId |-> "VEH001", speed |-> 65, timestamp |-> IsoText(0),
               location |-> Null],
             [vehicleId |-> "VEH001", speed |-> 65, timestamp |-> IsoText(30001),
               location |-> Null]>>

Handlers == 1..(Len(Earlier) + MaxMsgs)

\* A handler: the payload it was called with, where it is suspended (pc), the
\* locals of processSpeedData (speedData, vehicleState, violation), how its
\* awaits settled (save, and the three publishes on vehicles/alerts: notify for
\* the Alert, simple, critical), what processSpeedData returned (result), what
\* processViolation returned (engine), and what the suppression check saw: the
\* time (evalAt), the length of the alert history (histLen) and whether no
\* other evaluation for the same vehicle was unfinished (quiet).
NoPayload == Wire("none", Undefined, Undefined)

IdleHandler ==
    [pc |-> "idle", payload |-> NoPayload, speedData |-> Null, vehicleState |-> Null,
     violation |-> Null, save |-> "none", result |-> "none", engine |-> "none",
     notify |-> "none", simple |-> "none", critical |-> "none",
     evalAt |-> 0 - 1, histLen |-> 0, quiet |-> FALSE]

LogEntry(h, data) == [by |-> h, vehicleId |-> data.vehicleId, speed |-> data.speed]

\* After construction no channel has been attempted, and SpeedProcessor has
\* read the limits MqttSpeedProcessor has read, from the same configuration.
EngineIdle ==
    /\ notified = [h \in Handlers |-> << >>]
    /\ config = [speedLimit |-> speedLimit, consecutiveLimit |-> consecutiveLimit]

\* The state after construction: nothing has arrived.
InitFresh ==
    /\ now = 0
    /\ ticks = 0
    /\ faults = 0
    /\ budget = MaxMsgs
    /\ hs = [h \in Handlers |-> IdleHandler]
    /\ vehicleStates = << >>
    /\ processedCount = 0
    /\ violationCount = 0
    /\ messageCount = 0
    /\ errorCount = 0
    /\ alertHistory = << >>
    /\ activeAlerts = << >>
    /\ accepted = << >>
    /\ saveLog = << >>
    /\ alertSaveLog = << >>
    /\ published = {}

\* The state the program is in after the two Earlier readings have been
\* processed one after the other with every write and publish resolving: each
\* raised an alert, the second one more than the suppression window after the
\* first.
InitPrimed ==
    LET state1 == UpdatedState(<< >>, Earlier[1])
        violation1 == checkSpeedViolation(Earlier[1], state1)
        alert1 == createAlert(violation1, determineStrategy(violation1), 0, 1)
        state2 == UpdatedState("VEH001" :> state1, Earlier[2])
        violation2 == checkSpeedViolation(Earlier[2], state2)
        alert2 == createAlert(violation2, determineStrategy(violation2), 30001, 2)
        done(h, state, violation, t) ==
            [IdleHandler EXCEPT !.pc = "done",
                !.payload = Wire("object", Str("VEH001"), Num(65)),
                !.speedData = Earlier[h], !.vehicleState = state,
                !.violation = violation, !.save = "ok", !.result = "success",
                !.engine = "alert", !.notify = "ok", !.simple = "ok", !.evalAt = t,
                !.histLen = h - 1, !.quiet = TRUE]
    IN  /\ now = 30001
        /\ ticks = 0
        /\ faults = 0
        /\ budget = MaxMsgs
        /\ hs = [h \in Handlers |->
                   IF h = 1 THEN done(1, state1, violation1, 0)
                   ELSE IF h = 2 THEN done(2, state2, violation2, 30001)
                   ELSE IdleHandler]
        /\ vehicleStates = ("VEH001" :> state2)
        /\ processedCount = 2
        /\ violationCount = 2
        /\ messageCount = 2
        /\ errorCount = 0
        /\ alertHistory = StoredHistory(StoredHistory(<< >>, alert1), alert2)
        /\ activeAlerts = StoredActive(StoredActive(<< >>, alert1, 0), alert2, 30001)
        /\ accepted = <<LogEntry(1, Earlier[1]), LogEntry(2, Earlier[2])>>
        /\ saveLog = <<LogEntry(1, Earlier[1]), LogEntry(2, Earlier[2])>>
        /\ alertSaveLog = << >>
        /\ published = {AlertPayload(alert1), SimplePayload(1, violation1),
                        AlertPayload(alert2), SimplePayload(2, violation2)}

\* The topic of the readings (mqtt.topics.vehicleSpeed).
SpeedTopic == "vehicles/speed"

\* The transport after construction, and after start() has resolved: connected,
\* 'online' announced, the handler of the readings subscribed.
NoCall == [at |-> "idle", on |-> 0, target |-> 0, trail |-> << >>]

TransportIdle ==
    /\ clients = << >>
    /\ startCalls = [k \in 1..MaxStarts |-> NoCall]
    /\ repositories = [speed |-> "new", alert |-> "new"]
    /\ isConnected = FALSE
    /\ reconnectAttempts = 0
    /\ subscriptions = {}
    /\ messageHandlers = {}
    /\ isRunning = FALSE
    /\ call = "none"
    /\ retained = "none"
    /\ shutdown = Null
    /\ starts = 0

TransportUp ==
    /\ clients = <<[state |-> "connected", topics |-> {SpeedTopic}]>>
    /\ startCalls = [k \in 1..MaxStarts |->
                       IF k = 1
                       THEN [at |-> "resolved", on |-> 1, target |-> 1,
                             trail |-> <<"initSpeed", "initAlert", "connect", "subscribe">>]
                       ELSE NoCall]
    /\ repositories = [speed |-> "open", alert |-> "open"]
    /\ isConnected = TRUE
    /\ reconnectAttempts = 0
    /\ subscriptions = {SpeedTopic}
    /\ messageHandlers = {SpeedTopic}
    /\ isRunning = TRUE
    /\ call = "none"
    /\ retained = "online"
    /\ shutdown = Null
    /\ starts = 1

\* No sweep has been called, and the table alerts is empty.
MaintenanceIdle ==
    /\ swept = Null
    /\ alertRows = << >>

\* The processor has been constructed and started; nothing has arrived, or the
\* Earlier readings have.
Init == EngineIdle /\ (InitFresh \/ InitPrimed) /\ TransportUp /\ MaintenanceIdle

Outcome(ok) == IF ok THEN "ok" ELSE "failed"

\* ------------------------------------------------------------- dispatcher
\* The condition of the CRITICAL message in generateAlerts, and a variant that
\* asks for more than the limit.
NeedsCritical_afterThreshold(violation) ==
    violation.isConsecutive /\ violation.consecutiveCount > consecutiveLimit

NeedsCritical(violation) ==
    violation.isConsecutive /\ violation.consecutiveCount >= consecutiveLimit

\* MqttSpeedProcessor.generateAlerts up to its first publish: the handler
\* record when generateAlerts is entered with record r.
generateAlerts(r) ==
    IF r.violation = Null
    THEN [r EXCEPT !.pc = "done"]
    ELSE IF r.violation.speed > speedLimit
    THEN [r EXCEPT !.pc = "awaitSimple", !.simple = "pending"]
    ELSE IF NeedsCritical(r.violation)
    THEN [r EXCEPT !.pc = "awaitCritical", !.critical = "pending"]
    ELSE [r EXCEPT !.pc = "done"]

\* Variant: the rejection leaves handleSpeedMessage.
SaveRejected_escapes(r) == [r EXCEPT !.pc = "escaped", !.save = "failed", !.result = "error"]

\* A rejected saveSpeedRecord: the catch of processSpeedData returns
\* 'Processing error', handleSpeedMessage counts the error and returns.
SaveRejected(r) == [r EXCEPT !.pc = "done", !.save = "failed", !.result = "error"]

\* The publish of the Alert has settled: sendNotifications catches a
\* rejection, processViolation and processSpeedData return, generateAlerts starts.
NotifySettled(r, ok) ==
    generateAlerts([r EXCEPT !.notify = Outcome(ok), !.result = "success"])

\* The publish of the SIMPLE message has settled: MqttSpeedProcessor.publishAlert
\* catches a rejection, generateAlerts goes on to its CRITICAL part.
SimpleSettled(r, ok) ==
    IF NeedsCritical(r.violation)
    THEN [r EXCEPT !.pc = "awaitCritical", !.simple = Outcome(ok), !.critical = "pending"]
    ELSE [r EXCEPT !.pc = "done", !.simple = Outcome(ok)]

\* The publish of the CRITICAL message has settled; handleSpeedMessage returns.
CriticalSettled(r, ok) == [r EXCEPT !.pc = "done", !.critical = Outcome(ok)]

\* An evaluation of the alert engine that has started and has not returned.
Evaluating(h) == hs[h].pc \in {"awaitStrategy", "awaitNotify"}

Quiet(h) ==
    \A g \in Handlers \ {h} :
        Evaluating(g) => hs[g].violation.vehicleId # hs[h].violation.vehicleId

\* The process runs: no rejection has left handleSpeedMessage (MqttClient.
\* handleMessage does not await the handler, so one would be unhandled).
Alive == \A h \in Handlers : hs[h].pc # "escaped"

\* Variant: the client awaits the handler, so a message is handed over only
\* when no handler is suspended.
Delivers_awaited ==
    /\ Alive
    /\ SpeedTopic \in messageHandlers
    /\ \A h \in DOMAIN hs : hs[h].pc \in {"idle", "done"}

\* MqttClient.handleMessage looks up the handler of the topic, calls it and does
\* not wait for the promise it returns: a message is handed over whenever the
\* process runs and the handler is registered.
Delivers == Alive /\ SpeedTopic \in messageHandlers

\* ---------------------------------------------------------------- actions
\* The time that may have passed since the previous step when a step reads the
\* clock (at most MaxTicks steps find the clock advanced).
Elapsed == IF ticks < MaxTicks THEN {0} \cup TickSteps ELSE {0}

Passes(d) ==
    /\ now' = now + d
    /\ ticks' = IF d = 0 THEN ticks ELSE ticks + 1

\* An awaited persistence write or publish settles: it resolves, or it rejects
\* (at most MaxFaults rejections are explored).
Settles(ok) ==
    /\ ~ok => faults < MaxFaults
    /\ faults' = IF ok THEN faults ELSE faults + 1

\* this.errorCount++ of handleSpeedMessage: a message that cannot be parsed, or
\* whose processing returns no success, is counted once.
Counted(count) == count + 1

\* The invocation of handleSpeedMessage that the next message starts.
NextHandler ==
    CHOOSE h \in Handlers : hs[h].pc = "idle" /\ \A g \in 1..(h - 1) : hs[g].pc # "idle"

\* A message arrives, d ms after the previous step: MqttClient.handleMessage
\* calls handleSpeedMessage, which runs up to the await of saveSpeedRecord inside
\* processSpeedData.
HandleMessage(p, d) ==
    /\ Delivers
    /\ budget > 0
    /\ LET h == NextHandler
           speedData == parseSpeedMessage(ClientParse(p), now + d)
       IN  /\ budget' = budget - 1
           /\ messageCount' = messageCount + 1
           /\ IF speedData = Null
              THEN /\ errorCount' = Counted(errorCount)
                   /\ hs' = [hs EXCEPT ![h] = [@ EXCEPT !.pc = "done", !.payload = p,
                                                       !.result = "invalid"]]
                   /\ UNCHANGED <<vehicleStates, processedCount, violationCount,
                                  accepted, saveLog>>
              ELSE IF ~validateSpeedData(speedData).isValid
              THEN /\ errorCount' = Counted(errorCount)
                   /\ hs' = [hs EXCEPT ![h] = [@ EXCEPT !.pc = "done", !.payload = p,
                                                       !.result = "validation"]]
                   /\ UNCHANGED <<vehicleStates, processedCount, violationCount,
                                  accepted, saveLog>>
              ELSE LET data == validateSpeedData(speedData).data
                       states == updateVehicleState(vehicleStates, data)
                       snapshot == states[data.vehicleId]
                       violation == checkSpeedViolation(data, snapshot)
                   IN  /\ processedCount' = processedCount + 1
                       /\ vehicleStates' = states
                       /\ violationCount' = IF violation = Null THEN violationCount
                                            ELSE violationCount + 1
                       /\ accepted' = Append(accepted, LogEntry(h, data))
                       /\ saveLog' = RequestedSaves(saveLog, h, data)
                       /\ hs' = [hs EXCEPT ![h] = [@ EXCEPT !.pc = "awaitSave",
                                                           !.payload = p,
                                                           !.speedData = data,
                                                           !.vehicleState = snapshot,
                                                           !.violation = violation,
                                                           !.save = "pending"]]
                       /\ UNCHANGED errorCount
    /\ Passes(d)
    /\ UNCHANGED <<faults, alertHistory, activeAlerts, alertSaveLog, published>>
    /\ UNCHANGED <<transport, maintenance, engine>>

\* saveSpeedRecord settles, d ms after the previous step.  When it resolves,
\* processSpeedData goes on to AlertSystem.processViolation (up to the await of
\* the strategy) and, when that returns, handleSpeedMessage to generateAlerts.
SaveDone(h, ok, d) ==
    /\ Alive
    /\ hs[h].pc = "awaitSave"
    /\ IF ~ok
       THEN /\ errorCount' = Counted(errorCount)
            /\ hs' = [hs EXCEPT ![h] = SaveRejected(@)]
            /\ UNCHANGED activeAlerts
       ELSE IF hs[h].violation = Null
       THEN /\ hs' = [hs EXCEPT ![h] =
                        generateAlerts([@ EXCEPT !.save = "ok", !.result = "success"])]
            /\ UNCHANGED <<errorCount, activeAlerts>>
       ELSE IF shouldSuppressAlert(activeAlerts, hs[h].violation, now + d)
       THEN /\ hs' = [hs EXCEPT ![h] =
                        generateAlerts([@ EXCEPT !.save = "ok", !.result = "success",
                                                 !.engine = "suppressed",
                                                 !.evalAt = now + d,
                                                 !.histLen = Len(alertHistory),
                                                 !.quiet = Quiet(h)])]
            /\ activeAlerts' = SuppressedActive(activeAlerts, hs[h].violation, now + d)
            /\ UNCHANGED errorCount
       ELSE /\ hs' = [hs EXCEPT ![h] = [@ EXCEPT !.pc = "awaitStrategy", !.save = "ok",
                                                !.engine = "evaluating",
                                                !.evalAt = now + d,
                                                !.histLen = Len(alertHistory),
                                                !.quiet = Quiet(h)]]
            /\ UNCHANGED <<errorCount, activeAlerts>>
    /\ Settles(ok)
    /\ Passes(d)
    /\ UNCHANGED <<budget, vehicleStates, processedCount, violationCount, messageCount,
                   alertHistory, accepted, saveLog, alertSaveLog, published>>
    /\ UNCHANGED <<transport, maintenance, engine>>

\* The strategy's promise settles (it is resolved when it is awaited, so this is
\* the next turn of the microtask queue and the clock has not advanced):
\* createAlert, storeAlert, and sendNotifications up to the await of
\* MqttClient.publishAlert.
StrategyDone(h) ==
    /\ Alive
    /\ hs[h].pc = "awaitStrategy"
    /\ LET violation == hs[h].violation
           alert == createAlert(violation, determineStrategy(violation), now, h)
       IN  /\ alertHistory' = StoredHistory(alertHistory, alert)
           /\ activeAlerts' = StoredActive(activeAlerts, alert, now)
           /\ hs' = [hs EXCEPT ![h] = [@ EXCEPT !.pc = "awaitNotify", !.engine = "alert",
                                               !.notify = "pending"]]
    /\ UNCHANGED <<now, ticks, faults, budget, vehicleStates, processedCount,
                   violationCount, messageCount, errorCount, accepted, saveLog,
                   alertSaveLog, published>>
    /\ UNCHANGED <<transport, maintenance, engine>>

\* The alert sendNotifications of handler h was called with: the object
\* createAlert returned to processViolation, whatever the history holds by now.
SentAlert(h) ==
    createAlert(hs[h].violation, determineStrategy(hs[h].violation), hs[h].evalAt, h)

\* The publish of the Alert settles.
NotifyDone(h, ok) ==
    /\ Alive
    /\ hs[h].pc = "awaitNotify"
    /\ hs' = [hs EXCEPT ![h] = NotifySettled(@, ok)]
    /\ published' = Publish(published, AlertPayload(SentAlert(h)), ok)
    /\ Settles(ok)
    /\ UNCHANGED <<now, ticks, budget, vehicleStates, processedCount, violationCount,
                   messageCount, errorCount, alertHistory, activeAlerts, accepted,
                   saveLog, alertSaveLog>>
    /\ UNCHANGED <<transport, maintenance, engine>>

\* The publish of the SIMPLE message settles.
SimpleDone(h, ok) ==
    /\ Alive
    /\ hs[h].pc = "awaitSimple"
    /\ hs' = [hs EXCEPT ![h] = SimpleSettled(@, ok)]
    /\ published' = Publish(published, SimplePayload(h, hs[h].violation), ok)
    /\ Settles(ok)
    /\ UNCHANGED <<now, ticks, budget, vehicleStates, processedCount, violationCount,
                   messageCount, errorCount, alertHistory, activeAlerts, accepted,
                   saveLog, alertSaveLog>>
    /\ UNCHANGED <<transport, maintenance, engine>>

\* The publish of the CRITICAL message settles.
CriticalDone(h, ok) ==
    /\ Alive
    /\ hs[h].pc = "awaitCritical"
    /\ hs' = [hs EXCEPT ![h] = CriticalSettled(@, ok)]
    /\ published' = Publish(published, CriticalPayload(h, hs[h].violation), ok)
    /\ Settles(ok)
    /\ UNCHANGED <<now, ticks, budget, vehicleStates, processedCount, violationCount,
                   messageCount, errorCount, alertHistory, activeAlerts, accepted,
                   saveLog, alertSaveLog>>
    /\ UNCHANGED <<transport, maintenance, engine>>

Next ==
    \/ \E p \in Payloads, d \in Elapsed : HandleMessage(p, d)
    \/ \E h \in Handlers, ok \in BOOLEAN, d \in Elapsed : SaveDone(h, ok, d)
    \/ \E h \in Handlers : StrategyDone(h)
    \/ \E h \in Handlers, ok \in BOOLEAN : NotifyDone(h, ok)
    \/ \E h \in Handlers, ok \in BOOLEAN : SimpleDone(h, ok)
    \/ \E h \in Handlers, ok \in BOOLEAN : CriticalDone(h, ok)

Spec == Init /\ [][Next]_vars

\* The same program fed with readings of one vehicle whose speeds lie on, just
\* under and just over the limit and each severity threshold, with every write
\* and publish resolving and the clock standing still.
BoundarySpeeds == {0, 59, 60, 61, 65, 66, 67, 75, 76, 90, 91, 95, 500}
SpeedPayloads == {Wire("object", Str("VEH001"), Num(speed)) : speed \in BoundarySpeeds}

NextSpeeds ==
    \/ \E p \in SpeedPayloads : HandleMessage(p, 0)
    \/ \E h \in Handlers : SaveDone(h, TRUE, 0)
    \/ \E h \in Handlers : StrategyDone(h)
    \/ \E h \in Handlers : NotifyDone(h, TRUE)
    \/ \E h \in Handlers : SimpleDone(h, TRUE)
    \/ \E h \in Handlers : CriticalDone(h, TRUE)

SpecSpeeds == Init /\ [][NextSpeeds]_vars

\* The same program fed with readings of VEH001 at 65 km/h that carry the
\* optional members: a timestamp that is absent, text that is no date, the ISO
\* text of a date or a number of ms, and a location that is absent, complete,
\* or has only lat or only lng.  Every write and publish resolves.
Timestamps == {Undefined, Str("soon"), IsoText(7), Num(7)}
Locations == {Undefined, Loc(Num(10), Num(20)), Loc(Num(10), Undefined),
              Loc(Undefined, Num(20))}
FieldPayloads ==
    {WithMembers(Wire("object", Str("VEH001"), Num(65)), timestamp, location) :
        timestamp \in Timestamps, location \in Locations}

NextFields ==
    \/ \E p \in FieldPayloads, d \in Elapsed : HandleMessage(p, d)
    \/ \E h \in Handlers : SaveDone(h, TRUE, 0)
    \/ \E h \in Handlers : StrategyDone(h)
    \/ \E h \in Handlers : NotifyDone(h, TRUE)
    \/ \E h \in Handlers : SimpleDone(h, TRUE)
    \/ \E h \in Handlers : CriticalDone(h, TRUE)

SpecFields == Init /\ [][NextFields]_vars

\* ------------------------------------------------------------------ transport
\* Every call of MqttClient.connect creates a new mqtt client object and stores
\* it in this.client; the objects created before stay alive, with their event
\* handlers, until they are ended.  A client object is "connecting" while a
\* connection attempt is under way, "connected", "waiting" for its reconnect
\* timer after the connection was lost or an attempt failed, and "ended" after
\* end().  A call of start() is suspended at the await of
\* speedRepository.initialize ("initSpeed"), of alertRepository.initialize
\* ("initAlert"), of connect() ("connect") or of subscribe() ("subscribe").  A
\* call of stop() is suspended inside MqttClient.disconnect at the await of
\* publishSystemHealth ("stopPublish") or of the callback of end() ("stopEnd"),
\* or at the await of speedRepository.close ("stopCloseSpeed") or of
\* alertRepository.close ("stopCloseAlert").  One call of stop() is followed at
\* a time.

ClientIds == 1..Len(clients)

\* A call of start() is suspended at one of its awaits.
InFlight(k) == startCalls[k].at \in {"initSpeed", "initAlert", "connect", "subscribe"}

\* Variant: disconnect ends the connection without announcing anything.
AnnouncesOffline_never(connected) == FALSE

\* MqttClient.disconnect publishes the 'offline' status first when, and only
\* when, isConnected holds.
AnnouncesOffline(connected) == connected

\* MqttSpeedProcessor.start returns at once when isRunning holds; isRunning is
\* set only at the end of start(), so a call that finds another call of start()
\* suspended begins as well.
Begins(running) == ~running

\* POST /api/processor/start, or the auto-start of initializeSystem:
\* MqttSpeedProcessor.start up to its first await.
Start ==
    /\ Alive
    /\ starts < MaxStarts
    /\ starts' = starts + 1
    /\ startCalls' = [startCalls EXCEPT ![starts + 1].at =
                          IF Begins(isRunning) THEN "initSpeed" ELSE "resolved"]
    /\ shutdown' = IF Begins(isRunning) THEN Null ELSE shutdown
    /\ UNCHANGED <<clients, isConnected, reconnectAttempts, subscriptions, messageHandlers,
                   isRunning, call, retained, repositories>>
    /\ UNCHANGED <<pipeline, maintenance, engine>>

\* BaseRepository.initialize of a repository in the given state: it returns at
\* once when the repository is initialized; otherwise it creates a pool and
\* tries a connection, which succeeds (ok) or throws.
initialize(repository, ok) == IF repository = "open" \/ ok THEN "open" ELSE repository

\* initialize() returns rather than throws.
Initialized(repository, ok) == repository = "open" \/ ok

\* speedRepository.initialize settles for call k of start(): start() goes on to
\* alertRepository.initialize, or throws.
InitSpeedDone(k, ok) ==
    /\ Alive
    /\ startCalls[k].at = "initSpeed"
    /\ repositories' = [repositories EXCEPT !.speed = initialize(@, ok)]
    /\ startCalls' = [startCalls EXCEPT ![k] =
                        IF Initialized(repositories.speed, ok)
                        THEN [@ EXCEPT !.at = "initAlert", !.trail = Append(@, "initSpeed")]
                        ELSE [@ EXCEPT !.at = "rejected"]]
    /\ Settles(Initialized(repositories.speed, ok))
    /\ UNCHANGED <<clients, isConnected, reconnectAttempts, subscriptions, messageHandlers,
                   isRunning, call, retained, shutdown, starts>>
    /\ UNCHANGED <<now, ticks, budget, hs, vehicleStates, processedCount, violationCount,
                   messageCount, errorCount, alertHistory, activeAlerts, accepted, saveLog,
                   alertSaveLog, published>>
    /\ UNCHANGED <<maintenance, engine>>

\* alertRepository.initialize settles for call k of start(): start() goes on to
\* MqttClient.connect, which creates a new client object, or throws.
InitAlertDone(k, ok) ==
    /\ Alive
    /\ startCalls[k].at = "initAlert"
    /\ repositories' = [repositories EXCEPT !.alert = initialize(@, ok)]
    /\ IF Initialized(repositories.alert, ok)
       THEN /\ clients' = Append(clients, [state |-> "connecting", topics |-> {}])
            /\ startCalls' = [startCalls EXCEPT ![k] =
                                [@ EXCEPT !.at = "connect", !.on = Len(clients) + 1,
                                          !.trail = Append(@, "initAlert")]]
       ELSE /\ startCalls' = [startCalls EXCEPT ![k].at = "rejected"]
            /\ UNCHANGED clients
    /\ Settles(Initialized(repositories.alert, ok))
    /\ UNCHANGED <<isConnected, reconnectAttempts, subscriptions, messageHandlers,
                   isRunning, call, retained, shutdown, starts>>
    /\ UNCHANGED <<now, ticks, budget, hs, vehicleStates, processedCount, violationCount,
                   messageCount, errorCount, alertHistory, activeAlerts, accepted, saveLog,
                   alertSaveLog, published>>
    /\ UNCHANGED <<maintenance, engine>>

\* The 'connect' event of client object c: the handler sets isConnected, resets
\* the counter, publishes 'online' and resolves the promise of the connect()
\* that created c; a start() waiting for it goes on to subscribe(), which
\* subscribes on this.client.
ConnectEvent(c) ==
    /\ Alive
    /\ clients[c].state = "connecting"
    /\ clients' = [clients EXCEPT ![c].state = "connected"]
    /\ isConnected' = TRUE
    /\ reconnectAttempts' = 0
    /\ retained' = "online"
    /\ startCalls' = [k \in DOMAIN startCalls |->
                        IF startCalls[k].at = "connect" /\ startCalls[k].on = c
                        THEN [startCalls[k] EXCEPT !.at = "subscribe",
                                                   !.target = Len(clients),
                                                   !.trail = Append(@, "connect")]
                        ELSE startCalls[k]]
    /\ UNCHANGED <<subscriptions, messageHandlers, isRunning, call, shutdown, starts,
                   repositories>>
    /\ UNCHANGED <<pipeline, maintenance, engine>>

\* A connection attempt of client object c fails ('error', then the client
\* waits for its reconnect timer): the promise of the connect() that created c
\* is rejected and a start() waiting for it throws.
AttemptFails(c) ==
    /\ Alive
    /\ clients[c].state = "connecting"
    /\ clients' = [clients EXCEPT ![c].state = "waiting"]
    /\ startCalls' = [k \in DOMAIN startCalls |->
                        IF startCalls[k].at = "connect" /\ startCalls[k].on = c
                        THEN [startCalls[k] EXCEPT !.at = "rejected"]
                        ELSE startCalls[k]]
    /\ UNCHANGED <<isConnected, reconnectAttempts, subscriptions, messageHandlers,
                   isRunning, call, retained, shutdown, starts, repositories>>
    /\ UNCHANGED <<pipeline, maintenance, engine>>

\* The connection of client object c is lost: its 'offline' event.
OfflineEvent(c) ==
    /\ Alive
    /\ clients[c].state = "connected"
    /\ clients' = [clients EXCEPT ![c].state = "waiting"]
    /\ isConnected' = FALSE
    /\ UNCHANGED <<reconnectAttempts, subscriptions, messageHandlers, isRunning, call,
                   retained, shutdown, starts, startCalls, repositories>>
    /\ UNCHANGED <<pipeline, maintenance, engine>>

\* The 'reconnect' event of client object c, emitted when its timer starts a
\* new attempt: the handler counts it and, at maxReconnectAttempts, ends
\* this.client.
ReconnectEvent(c) ==
    /\ Alive
    /\ clients[c].state = "waiting"
    /\ reconnectAttempts < MaxAttempts
    /\ reconnectAttempts' = reconnectAttempts + 1
    /\ clients' = [i \in ClientIds |->
                     IF reconnectAttempts + 1 >= maxReconnectAttempts /\ i = Len(clients)
                     THEN [clients[i] EXCEPT !.state = "ended"]
                     ELSE IF i = c THEN [clients[i] EXCEPT !.state = "connecting"]
                     ELSE clients[i]]
    /\ UNCHANGED <<isConnected, subscriptions, messageHandlers, isRunning, call,
                   retained, shutdown, starts, startCalls, repositories>>
    /\ UNCHANGED <<pipeline, maintenance, engine>>

\* The callback of client.subscribe for call k of start(): the tables get the
\* topic and start() sets isRunning and resets its counters, or subscribe()
\* rejects and start() throws.  The broker grants a subscription to a connected
\* client.
SubscribeDone(k, ok) ==
    /\ Alive
    /\ startCalls[k].at = "subscribe"
    /\ ok => clients[startCalls[k].target].state = "connected"
    /\ IF ok
       THEN /\ clients' = [clients EXCEPT ![startCalls[k].target].topics = @ \cup {SpeedTopic}]
            /\ subscriptions' = subscriptions \cup {SpeedTopic}
            /\ messageHandlers' = messageHandlers \cup {SpeedTopic}
            /\ isRunning' = TRUE
            /\ messageCount' = 0
            /\ errorCount' = 0
            /\ startCalls' = [startCalls EXCEPT ![k] =
                                [@ EXCEPT !.at = "resolved", !.trail = Append(@, "subscribe")]]
       ELSE /\ startCalls' = [startCalls EXCEPT ![k].at = "rejected"]
            /\ UNCHANGED <<clients, subscriptions, messageHandlers, isRunning, messageCount,
                           errorCount>>
    /\ Settles(ok)
    /\ UNCHANGED <<isConnected, reconnectAttempts, call, retained, shutdown, starts,
                   repositories>>
    /\ UNCHANGED <<now, ticks, budget, hs, vehicleStates, processedCount, violationCount,
                   alertHistory, activeAlerts, accepted, saveLog, alertSaveLog, published>>
    /\ UNCHANGED <<maintenance, engine>>

\* this.client after end().
Ended(objects) == [objects EXCEPT ![Len(objects)].state = "ended"]

\* POST /api/processor/stop: MqttSpeedProcessor.stop up to the first await of
\* MqttClient.disconnect: the publish of 'offline', or end() at once.
Stop ==
    /\ Alive
    /\ isRunning
    /\ call = "none"
    /\ clients # << >>
    /\ IF AnnouncesOffline(isConnected)
       THEN /\ call' = "stopPublish"
            /\ shutdown' = [wasConnected |-> isConnected, steps |-> << >>]
            /\ UNCHANGED clients
       ELSE /\ call' = "stopEnd"
            /\ shutdown' = [wasConnected |-> isConnected, steps |-> <<"end">>]
            /\ clients' = Ended(clients)
    /\ UNCHANGED <<isConnected, reconnectAttempts, subscriptions, messageHandlers,
                   isRunning, retained, starts, startCalls, repositories>>
    /\ UNCHANGED <<pipeline, maintenance, engine>>

\* The publish of 'offline' settles: disconnect goes on to end(), or it throws
\* and stop() with it.
StopPublished(ok) ==
    /\ Alive
    /\ call = "stopPublish"
    /\ IF ok
       THEN /\ retained' = "offline"
            /\ clients' = Ended(clients)
            /\ call' = "stopEnd"
            /\ shutdown' = [shutdown EXCEPT !.steps = <<"offline", "end">>]
       ELSE /\ call' = "none"
            /\ UNCHANGED <<retained, clients, shutdown>>
    /\ Settles(ok)
    /\ UNCHANGED <<isConnected, reconnectAttempts, subscriptions, messageHandlers,
                   isRunning, starts, startCalls, repositories>>
    /\ UNCHANGED <<now, ticks, budget, hs, vehicleStates, processedCount, violationCount,
                   messageCount, errorCount, alertHistory, activeAlerts, accepted, saveLog,
                   alertSaveLog, published>>
    /\ UNCHANGED <<maintenance, engine>>

\* The callback of end(): disconnect clears its flag and tables and resolves,
\* and stop() goes on to speedRepository.close.
EndCallback ==
    /\ Alive
    /\ call = "stopEnd"
    /\ call' = "stopCloseSpeed"
    /\ isConnected' = FALSE
    /\ subscriptions' = {}
    /\ messageHandlers' = {}
    /\ shutdown' = [shutdown EXCEPT !.steps = Append(@, "cleared")]
    /\ UNCHANGED <<clients, reconnectAttempts, isRunning, retained, starts, startCalls,
                   repositories>>
    /\ UNCHANGED <<pipeline, maintenance, engine>>

\* BaseRepository.close of a repository in the given state: pool.end() when a
\* pool exists.
close(repository) == IF repository = "new" THEN "new" ELSE "closed"

\* speedRepository.close settles (the pool ends when the queries in flight have
\* returned): stop() goes on to alertRepository.close.
CloseSpeedDone ==
    /\ Alive
    /\ call = "stopCloseSpeed"
    /\ \A h \in Handlers : hs[h].pc # "awaitSave"
    /\ call' = "stopCloseAlert"
    /\ repositories' = [repositories EXCEPT !.speed = close(@)]
    /\ UNCHANGED <<clients, isConnected, reconnectAttempts, subscriptions, messageHandlers,
                   isRunning, retained, shutdown, starts, startCalls>>
    /\ UNCHANGED <<pipeline, maintenance, engine>>

\* alertRepository.close settles: stop() clears isRunning and returns.
CloseAlertDone ==
    /\ Alive
    /\ call = "stopCloseAlert"
    /\ call' = "none"
    /\ repositories' = [repositories EXCEPT !.alert = close(@)]
    /\ isRunning' = FALSE
    /\ UNCHANGED <<clients, isConnected, reconnectAttempts, subscriptions, messageHandlers,
                   retained, shutdown, starts, startCalls>>
    /\ UNCHANGED <<pipeline, maintenance, engine>>

\* The transport and the life cycle of the processor on their own, from the
\* state after construction, with the calls of start() made one after the other.
InitTransport == EngineIdle /\ InitFresh /\ TransportIdle /\ MaintenanceIdle

Sequential == \A k \in DOMAIN startCalls : ~InFlight(k)

NextTransport ==
    \/ Sequential /\ Start
    \/ \E k \in DOMAIN startCalls, ok \in BOOLEAN : InitSpeedDone(k, ok)
    \/ \E k \in DOMAIN startCalls, ok \in BOOLEAN : InitAlertDone(k, ok)
    \/ \E c \in ClientIds : ConnectEvent(c)
    \/ \E c \in ClientIds : AttemptFails(c)
    \/ \E c \in ClientIds : OfflineEvent(c)
    \/ \E c \in ClientIds : ReconnectEvent(c)
    \/ \E k \in DOMAIN startCalls, ok \in BOOLEAN : SubscribeDone(k, ok)
    \/ Stop
    \/ \E ok \in BOOLEAN : StopPublished(ok)
    \/ EndCallback
    \/ CloseSpeedDone
    \/ CloseAlertDone

SpecTransport == InitTransport /\ [][NextTransport]_vars

\* The same with calls of start() that overlap, and with readings of VEH002 at
\* the limit arriving at a client that is connected and subscribed, whose
\* persistence write resolves or rejects.
Receives == \E c \in ClientIds : clients[c].state = "connected" /\ SpeedTopic \in clients[c].topics

LifecyclePayloads == {Wire("object", Str("VEH002"), Num(60))}

NextLifecycle ==
    \/ Start
    \/ \E k \in DOMAIN startCalls, ok \in BOOLEAN : InitSpeedDone(k, ok)
    \/ \E k \in DOMAIN startCalls, ok \in BOOLEAN : InitAlertDone(k, ok)
    \/ \E c \in ClientIds : ConnectEvent(c)
    \/ \E c \in ClientIds : AttemptFails(c)
    \/ \E c \in ClientIds : OfflineEvent(c)
    \/ \E c \in ClientIds : ReconnectEvent(c)
    \/ \E k \in DOMAIN startCalls, ok \in BOOLEAN : SubscribeDone(k, ok)
    \/ Stop
    \/ \E ok \in BOOLEAN : StopPublished(ok)
    \/ EndCallback
    \/ CloseSpeedDone
    \/ CloseAlertDone
    \/ \E p \in LifecyclePayloads : Receives /\ HandleMessage(p, 0)
    \/ \E h \in Handlers, ok \in BOOLEAN : SaveDone(h, ok, 0)

SpecLifecycle == InitTransport /\ [][NextLifecycle]_vars

\* ---------------------------------------------------------------- maintenance
\* Variant: the last-seen value is compared as the instant it denotes.
Stale_byInstant(state, t, maxAge) == state.lastSeen.num < t - maxAge

\* state.lastSeen < cutoffTime in cleanupOldStates at time t: lastSeen holds the
\* timestamp of the vehicle's last reading, which validateSpeedData has made an
\* ISO text, and cutoffTime is new Date(t - maxAge).
Stale(state, t, maxAge) == LessThan(state.lastSeen, DateOf(t - maxAge))

\* SpeedProcessor.cleanupOldStates(maxAge) with Date.now() = t: the map after
\* the deletions, and the count it returns.
cleanupOldStates(states, t, maxAge) ==
    [v \in {w \in DOMAIN states : ~Stale(states[w], t, maxAge)} |-> states[v]]

cleanedCount(states, t, maxAge) ==
    Cardinality({w \in DOMAIN states : Stale(states[w], t, maxAge)})

\* AlertSystem.cleanupOldAlerts(maxAge) with Date.now() = t: the history keeps
\* the alerts created after t - maxAge; activeAlerts is not touched.
cleanupOldAlerts(history, t, maxAge) ==
    SelectSeq(history, LAMBDA alert : alert.createdAt > t - maxAge)

\* Ages the sweeps are called with: 30 s, and the defaults of cleanupOldStates
\* (1 h) and of AlertSystem.cleanupOldAlerts (24 h).
StateMaxAges == {30000, 3600000}
AlertMaxAges == {30000, 86400000}

\* n days in ms.
DaysMs(n) == n * 24 * 60 * 60 * 1000

\* The statuses AlertController.updateStatus lets through.
validStatuses == {"ACTIVE", "RESOLVED", "DISMISSED"}

\* PUT /api/alerts/:alertId/status: AlertController.updateStatus refuses a
\* status outside validStatuses; AlertRepository.updateStatus is one UPDATE of
\* the row with that alert_id, whatever its status is (no row: 404).
updateStatus(rows, alertId, status) ==
    IF status \notin validStatuses \/ alertId \notin DOMAIN rows
    THEN rows
    ELSE [rows EXCEPT ![alertId].status = status]

\* AlertRepository.cleanupOldAlerts(daysOld) with the clock at t: DELETE of the
\* rows created before the cutoff whose status is RESOLVED or DISMISSED.
deleteOldRows(rows, t, daysOld) ==
    [id \in {r \in DOMAIN rows :
                ~(/\ rows[r].created_at < t - DaysMs(daysOld)
                  /\ rows[r].status \in {"RESOLVED", "DISMISSED"})} |-> rows[id]]

\* The table alerts as the service finds it.  The pipeline itself inserts no
\* row (it never calls AlertRepository.saveAlert), so its rows are those other
\* writers of the database left: two created 2 days before time 0, one at 0.
StoredRows ==
    [id \in {"ALT-1", "ALT-2", "ALT-3"} |->
        CASE id = "ALT-1" -> [status |-> "ACTIVE", created_at |-> 0 - DaysMs(2)]
          [] id = "ALT-2" -> [status |-> "RESOLVED", created_at |-> 0 - DaysMs(2)]
          [] OTHER -> [status |-> "RESOLVED", created_at |-> 0]]

AlertIds == {"ALT-1", "ALT-2", "ALT-3", "ALT-9"}
RequestedStatuses == validStatuses \cup {"CLOSED"}
RetentionDays == {1, 3}

CleanupOldStates(maxAge, d) ==
    /\ Alive
    /\ vehicleStates' = cleanupOldStates(vehicleStates, now + d, maxAge)
    /\ swept' = [at |-> now + d, maxAge |-> maxAge, before |-> vehicleStates,
                 after |-> cleanupOldStates(vehicleStates, now + d, maxAge),
                 returned |-> cleanedCount(vehicleStates, now + d, maxAge)]
    /\ Passes(d)
    /\ UNCHANGED <<faults, budget, hs, processedCount, violationCount, messageCount,
                   errorCount, alertHistory, activeAlerts, accepted, saveLog,
                   alertSaveLog, published, alertRows>>
    /\ UNCHANGED <<transport, engine>>

CleanupOldAlerts(maxAge, d) ==
    /\ Alive
    /\ alertHistory' = cleanupOldAlerts(alertHistory, now + d, maxAge)
    /\ Passes(d)
    /\ UNCHANGED <<faults, budget, hs, vehicleStates, processedCount, violationCount,
                   messageCount, errorCount, activeAlerts, accepted, saveLog,
                   alertSaveLog, published>>
    /\ UNCHANGED <<transport, maintenance, engine>>

UpdateStatus(alertId, status) ==
    /\ Alive
    /\ alertRows' = updateStatus(alertRows, alertId, status)
    /\ UNCHANGED <<pipeline, transport, swept, engine>>

RepositoryCleanup(daysOld, d) ==
    /\ Alive
    /\ alertRows' = deleteOldRows(alertRows, now + d, daysOld)
    /\ Passes(d)
    /\ UNCHANGED <<faults, budget, hs, vehicleStates, processedCount, violationCount,
                   messageCount, errorCount, alertHistory, activeAlerts, accepted,
                   saveLog, alertSaveLog, published, swept>>
    /\ UNCHANGED <<transport, engine>>

\* The running processor with the maintenance operations called at any time;
\* the readings that arrive are of VEH002 at the limit, and every write resolves.
InitMaintenance ==
    /\ EngineIdle
    /\ InitFresh \/ InitPrimed
    /\ TransportUp
    /\ swept = Null
    /\ alertRows = StoredRows

MaintenancePayloads == {Wire("object", Str("VEH002"), Num(60))}

NextMaintenance ==
    \/ \E p \in MaintenancePayloads, d \in Elapsed : HandleMessage(p, d)
    \/ \E h \in Handlers : SaveDone(h, TRUE, 0)
    \/ \E maxAge \in StateMaxAges, d \in Elapsed : CleanupOldStates(maxAge, d)
    \/ \E maxAge \in AlertMaxAges, d \in Elapsed : CleanupOldAlerts(maxAge, d)
    \/ \E alertId \in AlertIds, status \in RequestedStatuses : UpdateStatus(alertId, status)
    \/ \E daysOld \in RetentionDays, d \in Elapsed : RepositoryCleanup(daysOld, d)

SpecMaintenance == InitMaintenance /\ [][NextMaintenance]_vars

\* ------------------------------------------------------ notification channels
\* An AlertSystem constructed with notification handlers beside the MQTT client
\* (its second constructor argument).
NotificationHandlers == <<"webhook", "websocket">>
HandlerOutcomes == [1..Len(NotificationHandlers) -> BOOLEAN]

\* Variant: a rejected publish is caught like a failing handler, and the
\* handlers are run after it.
sendNotifications_isolated(published_ok, outcomes) ==
    <<[type |-> "mqtt", success |-> published_ok]>>
        \o [i \in 1..Len(NotificationHandlers) |->
                [type |-> NotificationHandlers[i], success |-> outcomes[i]]]

\* AlertSystem.sendNotifications: the channels it has attempted when it returns.
\* The publish on MQTT comes first, inside the outer try only: when it rejects,
\* control goes to the outer catch and the loop over the handlers is skipped.
\* Each handler is called inside a try of its own.
sendNotifications(published_ok, outcomes) ==
    IF published_ok
    THEN <<[type |-> "mqtt", success |-> TRUE]>>
            \o [i \in 1..Len(NotificationHandlers) |->
                    [type |-> NotificationHandlers[i], success |-> outcomes[i]]]
    ELSE <<[type |-> "mqtt", success |-> FALSE]>>

\* sendNotifications of handler h returns: the publish of the Alert has settled
\* and, when it resolved, each notification handler has settled in its turn.
SendNotifications(h, ok, outcomes) ==
    /\ Alive
    /\ hs[h].pc = "awaitNotify"
    /\ hs' = [hs EXCEPT ![h] = NotifySettled(@, ok)]
    /\ published' = Publish(published, AlertPayload(SentAlert(h)), ok)
    /\ notified' = [notified EXCEPT ![h] = sendNotifications(ok, outcomes)]
    /\ Settles(ok)
    /\ UNCHANGED <<now, ticks, budget, vehicleStates, processedCount, violationCount,
                   messageCount, errorCount, alertHistory, activeAlerts, accepted,
                   saveLog, alertSaveLog>>
    /\ UNCHANGED <<transport, maintenance, config>>

NotificationPayloads == {Wire("object", Str(v), Num(65)) : v \in VehicleIds}

NextNotifications ==
    \/ \E p \in NotificationPayloads, d \in Elapsed : HandleMessage(p, d)
    \/ \E h \in Handlers : SaveDone(h, TRUE, 0)
    \/ \E h \in Handlers : StrategyDone(h)
    \/ \E h \in Handlers, ok \in BOOLEAN, outcomes \in HandlerOutcomes :
          SendNotifications(h, ok, outcomes)
    \/ \E h \in Handlers : SimpleDone(h, TRUE)
    \/ \E h \in Handlers : CriticalDone(h, TRUE)

SpecNotifications == Init /\ [][NextNotifications]_vars

\* -------------------------------------------------------------- configuration
\* newConfig.x && newConfig.x > 0 for a member that is absent or a number.
Positive(x) == Truthy(x) /\ ~IsNaN(x) /\ ToNumber(x) > 0

\* SpeedProcessor.updateConfiguration(newConfig): the limits of SpeedProcessor
\* after it.  The limits MqttSpeedProcessor read in its constructor are fields
\* of another object, which this method does not reach.
updateConfiguration(current, newConfig) ==
    [speedLimit |-> IF Positive(newConfig.speedLimit)
                    THEN ToNumber(newConfig.speedLimit) ELSE current.speedLimit,
     consecutiveLimit |-> IF Positive(newConfig.consecutiveLimit)
                          THEN ToNumber(newConfig.consecutiveLimit)
                          ELSE current.consecutiveLimit]

\* The configurations it is called with: each member absent, 0, negative, or a
\* new positive value.
NewConfigs ==
    [speedLimit : {Undefined, Num(0), Num(0 - 5), Num(50)},
     consecutiveLimit : {Undefined, Num(0), Num(2)}]

UpdateConfiguration(newConfig) ==
    /\ Alive
    /\ config' = updateConfiguration(config, newConfig)
    /\ UNCHANGED <<pipeline, transport, maintenance, notified>>

\* The running processor with its configuration updated at any time, and
\* readings of VEH001 between the new limit and the old one, and over both.
ConfigurationPayloads == {Wire("object", Str("VEH001"), Num(speed)) : speed \in {55, 65}}

NextConfiguration ==
    \/ \E newConfig \in NewConfigs : UpdateConfiguration(newConfig)
    \/ \E p \in ConfigurationPayloads : HandleMessage(p, 0)
    \/ \E h \in Handlers : SaveDone(h, TRUE, 0)
    \/ \E h \in Handlers : StrategyDone(h)
    \/ \E h \in Handlers : NotifyDone(h, TRUE)
    \/ \E h \in Handlers : SimpleDone(h, TRUE)
    \/ \E h \in Handlers : CriticalDone(h, TRUE)

SpecConfiguration == Init /\ [][NextConfiguration]_vars

\* The running processor and the sweep of vehicle states, with readings of
\* VEH002 at the limit whose sample timestamp is absent or lies two hours
\* before time 0, as ISO text or as a number of ms.  Every write resolves.
OldSample == 0 - 7200000
SweepPayloads ==
    {WithMembers(Wire("object", Str("VEH002"), Num(60)), timestamp, Undefined) :
        timestamp \in {Undefined, IsoText(OldSample), Num(OldSample)}}

NextSweep ==
    \/ \E p \in SweepPayloads, d \in Elapsed : HandleMessage(p, d)
    \/ \E h \in Handlers : SaveDone(h, TRUE, 0)
    \/ \E maxAge \in StateMaxAges, d \in Elapsed : CleanupOldStates(maxAge, d)

SpecSweep == Init /\ [][NextSweep]_vars

\* ================================================================ properties
\* The readings of vehicle v, in the order updateVehicleState applied them.
AcceptedOf(v) == SelectSeq(accepted, LAMBDA e : e.vehicleId = v)

\* The readings applied up to and including the one of handler h, for its vehicle.
AcceptedUpTo(h) ==
    LET i == CHOOSE j \in 1..Len(accepted) : accepted[j].by = h
    IN  SelectSeq(SubSeq(accepted, 1, i), LAMBDA e : e.vehicleId = accepted[i].vehicleId)

\* The number of readings over the limit at the end of s, and in all of s.
RECURSIVE TrailingRun(_)
TrailingRun(s) ==
    IF s = << >> \/ s[Len(s)].speed <= speedLimit
    THEN 0
    ELSE 1 + TrailingRun(SubSeq(s, 1, Len(s) - 1))

Violations(s) == Cardinality({i \in 1..Len(s) : s[i].speed > speedLimit})

\* The alerts that existed when handler h was evaluated by the alert engine
\* (newest first), and the newest of them for h's vehicle.
AlertsAt(h) ==
    SubSeq(alertHistory, Len(alertHistory) - hs[h].histLen + 1, Len(alertHistory))

PriorAlerts(h) ==
    SelectSeq(AlertsAt(h), LAMBDA a : a.vehicleId = hs[h].violation.vehicleId)

AlertsBy(h) == {i \in 1..Len(alertHistory) : alertHistory[i].by = h}

\* Handler h has been evaluated by the alert engine.
Evaluated(h) == hs[h].engine # "none"

\* Handler h was evaluated when an alert of its vehicle existed, and no other
\* evaluation for that vehicle was unfinished.
EvaluatedAfter(h) == Evaluated(h) /\ hs[h].quiet /\ PriorAlerts(h) # << >>

SinceAlert(h) == hs[h].evalAt - PriorAlerts(h)[1].createdAt

\* C1: for every vehicle, the consecutive-violation counter equals the number
\* of readings over the limit at the end of the vehicle's accepted readings (N
\* after N violating readings in a row, 0 after a reading at or under the
\* limit), and the lifetime counter equals the number of all its violating
\* readings (a reset of the streak does not reset it).
C1_ConsecutiveCounter ==
    /\ \A v \in VehicleIds : AcceptedOf(v) # << >> => v \in DOMAIN vehicleStates
    /\ \A v \in DOMAIN vehicleStates :
        /\ vehicleStates[v].consecutiveViolations = TrailingRun(AcceptedOf(v))
        /\ vehicleStates[v].totalViolations = Violations(AcceptedOf(v))
        /\ AcceptedOf(v)[Len(AcceptedOf(v))].speed <= speedLimit
              => vehicleStates[v].consecutiveViolations = 0

\* Two violating readings in a row (streak 2 after the second), then one at
\* the limit: streak 0, lifetime 2.
C1_Witness ==
    /\ "VEH001" \in DOMAIN vehicleStates
    /\ Len(AcceptedOf("VEH001")) = 3
    /\ hs[accepted[2].by].vehicleState.consecutiveViolations = 2
    /\ AcceptedOf("VEH001")[3].speed = speedLimit
    /\ vehicleStates["VEH001"].consecutiveViolations = 0
    /\ vehicleStates["VEH001"].totalViolations = 2

\* C2: whatever handlers are suspended at awaits, every reading's update of its
\* vehicle's state is applied whole and in delivery order: the snapshot a
\* handler took counts exactly the readings of its vehicle delivered up to its
\* own (record count, streak and lifetime violations), the stored state counts
\* all of them, and the readings were applied in the order of delivery; no
\* increment is lost.
C2_AtomicUpdate ==
    /\ \A i, j \in 1..Len(accepted) : i < j => accepted[i].by < accepted[j].by
    /\ \A h \in Handlers :
        (hs[h].pc # "idle" /\ hs[h].payload \in ValidPayloads) =>
            /\ \E i \in 1..Len(accepted) : accepted[i].by = h
            /\ hs[h].vehicleState.recordCount = Len(AcceptedUpTo(h))
            /\ hs[h].vehicleState.consecutiveViolations = TrailingRun(AcceptedUpTo(h))
            /\ hs[h].vehicleState.totalViolations = Violations(AcceptedUpTo(h))
    /\ \A v \in VehicleIds :
        AcceptedOf(v) # << >> =>
            /\ v \in DOMAIN vehicleStates
            /\ vehicleStates[v].recordCount = Len(AcceptedOf(v))
            /\ vehicleStates[v].consecutiveViolations = TrailingRun(AcceptedOf(v))

\* Two handlers of the same vehicle are both suspended at the persistence
\* write, the second delivered while the first was waiting.
C2_Witness ==
    \E g, h \in Handlers :
        /\ g < h
        /\ hs[g].pc = "awaitSave"
        /\ hs[h].pc = "awaitSave"
        /\ hs[g].speedData.vehicleId = hs[h].speedData.vehicleId
        /\ hs[g].speedData.speed > speedLimit
        /\ hs[h].speedData.speed > speedLimit
        /\ hs[h].vehicleState.consecutiveViolations =
               hs[g].vehicleState.consecutiveViolations + 1

\* C3: a violation evaluated after the newest alert of its vehicle, with no
\* other evaluation for the vehicle unfinished: evaluated less than the
\* suppression window after that alert was created, its result is
\* 'suppressed' and it adds no Alert (one Alert for the two violations);
\* evaluated more than the window after, it is not suppressed and, once its
\* strategy has run, exactly one further Alert exists (two for the two).
C3_SuppressionWindow ==
    \A h \in Handlers :
        EvaluatedAfter(h) =>
            /\ SinceAlert(h) < suppressionWindow =>
                  hs[h].engine = "suppressed" /\ AlertsBy(h) = {}
            /\ SinceAlert(h) > suppressionWindow =>
                  /\ hs[h].engine # "suppressed"
                  /\ hs[h].pc # "awaitStrategy" => Cardinality(AlertsBy(h)) = 1

\* A violation evaluated 30001 ms after the alert before it raised a second
\* Alert, and the next one, evaluated 29999 ms after that Alert, was suppressed.
C3_Witness ==
    \E g, h \in Handlers :
        /\ EvaluatedAfter(g)
        /\ SinceAlert(g) = suppressionWindow + 1
        /\ hs[g].engine = "alert"
        /\ Len(PriorAlerts(g)) + Cardinality(AlertsBy(g)) = 2
        /\ EvaluatedAfter(h)
        /\ SinceAlert(h) = suppressionWindow - 1
        /\ hs[h].engine = "suppressed"
        /\ hs[h].pc = "done"
        /\ Len(PriorAlerts(h)) + Cardinality(AlertsBy(h)) = 2

\* The messages handler h has published on vehicles/alerts.
Published(h) ==
    {k \in {"notify", "simple", "critical"} : hs[h][k] = "ok"}

\* C4 (as the specification states it): a violation the alert engine suppressed
\* leads to no message on the alert topic.
C4_SuppressedNotPublished ==
    \A h \in Handlers : hs[h].engine = "suppressed" => Published(h) = {}

\* C5 (as the specification states it): a violating reading whose persistence
\* write was rejected is still evaluated by the alert engine and something is
\* published for it; and a reading for which a publish was rejected has had its
\* persistence requested.
C5_IndependentFailures ==
    \A h \in Handlers :
        /\ (hs[h].pc = "done" /\ hs[h].save = "failed" /\ hs[h].violation # Null)
              => Evaluated(h) /\ Published(h) # {}
        /\ (\E k \in {"notify", "simple", "critical"} : hs[h][k] = "failed")
              => \E i \in 1..Len(saveLog) : saveLog[i].by = h

\* The half of C5 the code keeps: a rejected publish never loses the request to
\* persist the reading.
C5_PublishFailureKeepsPersistence ==
    \A h \in Handlers :
        (\E k \in {"notify", "simple", "critical"} : hs[h][k] = "failed")
            => \E i \in 1..Len(saveLog) : saveLog[i].by = h

\* C6 (as the specification states it): when a handler whose violation raised
\* an Alert completes, that Alert has been handed to AlertRepository.saveAlert.
C6_AlertsPersisted ==
    [][\A h \in Handlers :
          (hs[h].pc # "done" /\ hs'[h].pc = "done" /\ hs'[h].engine = "alert")
              => \E i \in 1..Len(alertSaveLog') : alertSaveLog'[i].by = h]_vars

\* C7: no rejection or exception leaves handleSpeedMessage: a handler whose
\* payload was refused or whose persistence write was rejected has completed,
\* no handler has ended by throwing, and every valid message delivered, also
\* after such a failure, has updated its vehicle's state and been classified.
C7_HandlerNeverThrows ==
    /\ \A h \in Handlers :
        /\ hs[h].pc # "escaped"
        /\ hs[h].result \in {"invalid", "validation", "error"} => hs[h].pc = "done"
    /\ \A h \in Handlers :
        (hs[h].pc # "idle" /\ hs[h].payload \in ValidPayloads) =>
            /\ hs[h].speedData # Null
            /\ hs[h].vehicleState # Null
            /\ hs[h].speedData.vehicleId \in DOMAIN vehicleStates
            /\ \E i \in 1..Len(accepted) : accepted[i].by = h
            /\ hs[h].violation # Null <=> hs[h].speedData.speed > speedLimit

\* The persistence write of one handler was rejected; a valid violating message
\* delivered after that has been processed to the end.
C7_Witness ==
    \E g, h \in Handlers :
        /\ g < h
        /\ hs[g].pc = "done"
        /\ hs[g].save = "failed"
        /\ hs[h].payload \in ValidPayloads
        /\ hs[h].pc = "done"
        /\ hs[h].result = "success"
        /\ hs[h].violation # Null
        /\ hs[h].vehicleState.recordCount = vehicleStates[hs[h].speedData.vehicleId].recordCount

\* Handler h did nothing but count its message as an error.
Discarded(h) ==
    /\ hs[h].pc = "done"
    /\ hs[h].speedData = Null
    /\ hs[h].vehicleState = Null
    /\ hs[h].violation = Null
    /\ hs[h].save = "none"
    /\ hs[h].engine = "none"
    /\ hs[h].notify = "none" /\ hs[h].simple = "none" /\ hs[h].critical = "none"
    /\ \A i \in 1..Len(accepted) : accepted[i].by # h
    /\ \A i \in 1..Len(saveLog) : saveLog[i].by # h
    /\ AlertsBy(h) = {}

\* The handlers that were called with a well-formed reading of vehicle v.
ValidFor(v) ==
    {h \in Handlers : hs[h].payload \in ValidPayloads /\ hs[h].payload.vehicleId.str = v}

\* C8: a payload that is empty, truncated, without vehicleId, without a numeric
\* speed, with a speed outside [0, 500] or with an invalid vehicle id is
\* discarded: no state, Violation, Alert, persistence request or publish comes
\* from it, and the vehicle states are those the well-formed readings made.
C8_MalformedDiscarded ==
    /\ \A h \in Handlers : hs[h].payload \in MalformedPayloads => Discarded(h)
    /\ DOMAIN vehicleStates = {v \in VehicleIds : ValidFor(v) # {}}
    /\ \A v \in DOMAIN vehicleStates :
          vehicleStates[v].recordCount = Cardinality(ValidFor(v))
    /\ processedCount = Len(accepted)

\* A payload whose speed is the string "95" arrived for a vehicle that has a
\* state, and was discarded.
C8_Witness ==
    \E h \in Handlers :
        /\ hs[h].payload = Wire("object", Str("VEH001"), Str("95"))
        /\ Discarded(h)
        /\ "VEH001" \in DOMAIN vehicleStates
        /\ hs[h].result = "invalid"

\* C9: a violation evaluated less than the suppression window after the newest
\* alert of its vehicle is suppressed whatever the two severities are, a
\* CRITICAL violation after a LOW alert included.
C9_SeverityIgnored ==
    \A h \in Handlers :
        (/\ Evaluated(h)
         /\ PriorAlerts(h) # << >>
         /\ SinceAlert(h) < suppressionWindow
         /\ hs[h].violation.severity # PriorAlerts(h)[1].severity)
            => hs[h].engine = "suppressed" /\ AlertsBy(h) = {}

\* A CRITICAL violation was suppressed by a LOW alert inside the window.
C9_Witness ==
    \E h \in Handlers :
        /\ Evaluated(h)
        /\ PriorAlerts(h) # << >>
        /\ PriorAlerts(h)[1].severity = "LOW"
        /\ hs[h].violation.severity = "CRITICAL"
        /\ SinceAlert(h) < suppressionWindow
        /\ hs[h].engine = "suppressed"

\* C10: a violation is suppressed only when an alert of the same vehicle,
\* created less than the suppression window before the evaluation, exists; a
\* violation of a vehicle without any alert is never suppressed, however
\* recent the alerts of other vehicles are.
C10_PerVehicle ==
    \A h \in Handlers :
        /\ hs[h].engine = "suppressed" =>
              \E i \in 1..Len(PriorAlerts(h)) :
                  hs[h].evalAt - PriorAlerts(h)[i].createdAt < suppressionWindow
        /\ (Evaluated(h) /\ PriorAlerts(h) = << >>) => hs[h].engine # "suppressed"

\* A violation of VEH002 raised an alert although an alert of VEH001 was less
\* than the window old when it was evaluated.
C10_Witness ==
    \E h \in Handlers :
        /\ hs[h].engine = "alert"
        /\ hs[h].violation.vehicleId = "VEH002"
        /\ PriorAlerts(h) = << >>
        /\ AlertsAt(h) # << >>
        /\ AlertsAt(h)[1].vehicleId = "VEH001"
        /\ hs[h].evalAt - AlertsAt(h)[1].createdAt < suppressionWindow

\* The newest alert of vehicle v.
NewestAlertOf(v) == SelectSeq(alertHistory, LAMBDA a : a.vehicleId = v)[1]

\* C11: the alert engine's state holds exactly the alerts created: the history
\* has one entry per violation that was not suppressed, none for a suppressed
\* one, and every vehicle's active-alert entry is that of its newest alert,
\* with the last-alert time the time that alert was created; a suppressed
\* violation has changed neither.
C11_SuppressionLeavesEngine ==
    /\ Len(alertHistory) = Cardinality({h \in Handlers : hs[h].engine = "alert"})
    /\ \A h \in Handlers : hs[h].engine = "suppressed" => AlertsBy(h) = {}
    /\ DOMAIN activeAlerts = {alertHistory[i].vehicleId : i \in 1..Len(alertHistory)}
    /\ \A v \in DOMAIN activeAlerts :
          activeAlerts[v] = [lastAlert |-> NewestAlertOf(v).createdAt,
                             alertId |-> NewestAlertOf(v).id,
                             severity |-> NewestAlertOf(v).severity]

\* A violation was suppressed 29999 ms after the alert of its vehicle; the
\* entry still carries the time of that alert.
C11_Witness ==
    \E h \in Handlers :
        /\ hs[h].engine = "suppressed"
        /\ hs[h].pc = "done"
        /\ hs[h].evalAt = now
        /\ hs[h].violation.vehicleId \in DOMAIN activeAlerts
        /\ activeAlerts[hs[h].violation.vehicleId].lastAlert = now - (suppressionWindow - 1)

\* The percentage by which a speed exceeds the limit is over k.
OverPercent(speed, k) == (speed - speedLimit) * 100 > k * speedLimit

\* C12: every violation's severity is CRITICAL when the speed exceeds the
\* limit by more than 50 %, otherwise HIGH when by more than 25 %, otherwise
\* MEDIUM when by more than 10 %, otherwise LOW.
C12_SeverityThresholds ==
    \A h \in Handlers :
        hs[h].violation # Null =>
            hs[h].violation.severity =
                IF OverPercent(hs[h].speedData.speed, 50) THEN "CRITICAL"
                ELSE IF OverPercent(hs[h].speedData.speed, 25) THEN "HIGH"
                ELSE IF OverPercent(hs[h].speedData.speed, 10) THEN "MEDIUM"
                ELSE "LOW"

\* Readings at 67 and 76 km/h were classified MEDIUM and HIGH.
C12_Witness ==
    \E g, h \in Handlers :
        /\ hs[g].violation # Null /\ hs[g].violation.speed = 67
        /\ hs[g].violation.severity = "MEDIUM"
        /\ hs[h].violation # Null /\ hs[h].violation.speed = 76
        /\ hs[h].violation.severity = "HIGH"

\* C13 (as the specification states it): a reading exactly 25 % over the limit
\* is HIGH and one exactly 50 % over the limit is CRITICAL.
C13_BoundariesAsStated ==
    \A h \in Handlers :
        hs[h].violation # Null =>
            /\ (hs[h].violation.speed - speedLimit) * 100 = 25 * speedLimit
                  => hs[h].violation.severity = "HIGH"
            /\ (hs[h].violation.speed - speedLimit) * 100 = 50 * speedLimit
                  => hs[h].violation.severity = "CRITICAL"

\* C13 (amended): the thresholds are strict, so a reading exactly 10 %, 25 % or
\* 50 % over the limit gets the severity below the threshold: LOW, MEDIUM, HIGH.
C13_BoundariesStrict ==
    \A h \in Handlers :
        hs[h].violation # Null =>
            /\ (hs[h].violation.speed - speedLimit) * 100 = 10 * speedLimit
                  => hs[h].violation.severity = "LOW"
            /\ (hs[h].violation.speed - speedLimit) * 100 = 25 * speedLimit
                  => hs[h].violation.severity = "MEDIUM"
            /\ (hs[h].violation.speed - speedLimit) * 100 = 50 * speedLimit
                  => hs[h].violation.severity = "HIGH"

\* Readings at 75 and 90 km/h were classified MEDIUM and HIGH.
C13_Witness ==
    \E g, h \in Handlers :
        /\ hs[g].violation # Null /\ hs[g].violation.speed = 75
        /\ hs[g].violation.severity = "MEDIUM"
        /\ hs[h].violation # Null /\ hs[h].violation.speed = 90
        /\ hs[h].violation.severity = "HIGH"

\* C14: a violation carries the streak flag exactly when the vehicle's
\* consecutive counter, the current reading included, is at least the
\* consecutive limit, and the streak length it reports is that counter.
C14_StreakFlag ==
    \A h \in Handlers :
        hs[h].violation # Null =>
            /\ hs[h].violation.consecutiveCount = TrailingRun(AcceptedUpTo(h))
            /\ hs[h].violation.isConsecutive
                  <=> TrailingRun(AcceptedUpTo(h)) >= consecutiveLimit

\* Four violating readings in a row: the 2nd is not flagged, the 3rd is, and
\* the 4th is flagged with streak length 4.
C14_Witness ==
    \E f, g, h \in Handlers :
        /\ hs[f].violation # Null /\ hs[g].violation # Null /\ hs[h].violation # Null
        /\ hs[f].violation.consecutiveCount = consecutiveLimit - 1
        /\ ~hs[f].violation.isConsecutive
        /\ hs[g].violation.consecutiveCount = consecutiveLimit
        /\ hs[g].violation.isConsecutive
        /\ hs[h].violation.consecutiveCount = consecutiveLimit + 1
        /\ hs[h].violation.isConsecutive

\* The CRITICAL messages handler h has on the alert topic.
CriticalBy(h) == {m \in published : m.by = h /\ m.type = "CRITICAL"}

\* C15: for a violating reading processed to the end whose consecutive count is
\* at least the consecutive limit, the publish of one CRITICAL message was
\* requested, and when the broker took it the topic holds exactly that message
\* of the handler, carrying the count; for a violating reading with a smaller
\* count no CRITICAL message is requested or published.
C15_CriticalMessage ==
    \A h \in Handlers :
        hs[h].violation # Null =>
            IF TrailingRun(AcceptedUpTo(h)) >= consecutiveLimit
            THEN (hs[h].pc = "done" /\ hs[h].result = "success") =>
                    /\ hs[h].critical \in {"ok", "failed"}
                    /\ hs[h].critical = "failed" => CriticalBy(h) = {}
                    /\ hs[h].critical = "ok" =>
                          /\ Cardinality(CriticalBy(h)) = 1
                          /\ \A m \in CriticalBy(h) :
                                /\ m.consecutiveCount = TrailingRun(AcceptedUpTo(h))
                                /\ m.vehicleId = hs[h].speedData.vehicleId
            ELSE hs[h].critical = "none" /\ CriticalBy(h) = {}

\* The third violating reading in a row was processed and its CRITICAL message,
\* with count 3, is on the topic; the second one's handler published none.
C15_Witness ==
    \E g, h \in Handlers :
        /\ hs[g].violation # Null
        /\ hs[g].violation.consecutiveCount = consecutiveLimit - 1
        /\ hs[g].pc = "done"
        /\ CriticalBy(g) = {}
        /\ hs[h].violation # Null
        /\ hs[h].pc = "done"
        /\ hs[h].result = "success"
        /\ \E m \in CriticalBy(h) : m.consecutiveCount = consecutiveLimit

\* C16: every alert carries the data of the strategy chosen by priority:
\* severity CRITICAL gives priority CRITICAL, escalated, whatever the streak
\* flag; otherwise a set streak flag gives priority HIGH, escalated; otherwise
\* priority NORMAL, not escalated.  No alert has the pattern strategy's
\* priority MEDIUM.
C16_StrategyPriority ==
    \A i \in 1..Len(alertHistory) :
        LET a == alertHistory[i]
        IN  /\ a.severity = "CRITICAL" => a.priority = "CRITICAL" /\ a.escalated
            /\ (a.severity # "CRITICAL" /\ a.isConsecutive)
                  => a.priority = "HIGH" /\ a.escalated
            /\ (a.severity # "CRITICAL" /\ ~a.isConsecutive)
                  => a.priority = "NORMAL" /\ ~a.escalated
            /\ a.priority # "MEDIUM"

\* An alert of severity CRITICAL with the streak flag set has priority CRITICAL.
C16_Witness ==
    \E i \in 1..Len(alertHistory) :
        /\ alertHistory[i].severity = "CRITICAL"
        /\ alertHistory[i].isConsecutive
        /\ alertHistory[i].priority = "CRITICAL"
        /\ alertHistory[i].escalated

\* C17: a valid reading gives a Violation exactly when its speed is over the
\* limit; the Violation is of that reading, with exceedAmount = speed - limit,
\* and one is counted per such reading; a reading at or under the limit is not
\* evaluated by the alert engine and raises no Alert.
C17_ViolationIffOverLimit ==
    /\ \A h \in Handlers :
        hs[h].speedData # Null =>
            /\ hs[h].violation # Null <=> hs[h].speedData.speed > speedLimit
            /\ hs[h].violation # Null =>
                  /\ hs[h].violation.vehicleId = hs[h].speedData.vehicleId
                  /\ hs[h].violation.speed = hs[h].speedData.speed
                  /\ hs[h].violation.exceedAmount = hs[h].speedData.speed - speedLimit
            /\ hs[h].speedData.speed <= speedLimit =>
                  /\ hs[h].engine = "none"
                  /\ AlertsBy(h) = {}
                  /\ \A m \in published : m.by # h
    /\ violationCount = Cardinality({h \in Handlers : hs[h].violation # Null})

\* A reading at exactly the limit was processed without Violation, and one
\* 1 km/h over it gave a Violation with exceedAmount 1.
C17_Witness ==
    \E g, h \in Handlers :
        /\ hs[g].speedData # Null
        /\ hs[g].speedData.speed = speedLimit
        /\ hs[g].violation = Null
        /\ hs[g].pc = "done"
        /\ hs[h].violation # Null
        /\ hs[h].violation.exceedAmount = 1

\* The calls of saveSpeedRecord made by handler h.
SavesBy(h) == {i \in 1..Len(saveLog) : saveLog[i].by = h}

\* C18: every handler of a valid reading has called saveSpeedRecord exactly
\* once, with that reading, whatever became of the reading afterwards
\* (violation or not, suppressed or not, write rejected or not); no other
\* call is made.
C18_SavedOnce ==
    /\ \A h \in Handlers :
        IF hs[h].speedData # Null
        THEN /\ Cardinality(SavesBy(h)) = 1
             /\ \A i \in SavesBy(h) :
                   /\ saveLog[i].vehicleId = hs[h].speedData.vehicleId
                   /\ saveLog[i].speed = hs[h].speedData.speed
        ELSE SavesBy(h) = {}
    /\ \A h \in Handlers :
        (hs[h].pc # "idle" /\ hs[h].payload \in ValidPayloads) => hs[h].speedData # Null
    /\ Len(saveLog) = processedCount

\* A reading at the limit whose write was rejected and a violating reading
\* that was suppressed have both completed, each with one call.
C18_Witness ==
    \E g, h \in Handlers :
        /\ hs[g].pc = "done"
        /\ hs[g].save = "failed"
        /\ hs[g].violation = Null
        /\ Cardinality(SavesBy(g)) = 1
        /\ hs[h].pc = "done"
        /\ hs[h].engine = "suppressed"
        /\ Cardinality(SavesBy(h)) = 1

\* The state of a vehicle after the readings s (entries of accepted, not
\* empty) were applied one after the other to a vehicle without state.
RECURSIVE ReplayState(_)
ReplayState(s) ==
    IF Len(s) = 1
    THEN UpdatedState(<< >>, hs[s[1].by].speedData)
    ELSE UpdatedState(s[1].vehicleId :> ReplayState(SubSeq(s, 1, Len(s) - 1)),
                      hs[s[Len(s)].by].speedData)

\* C19: a rejected persistence write leaves the in-memory state as a resolved
\* one would: the reading of the handler whose write was rejected is part of
\* its vehicle's state, that state is the one all accepted readings of the
\* vehicle give, and every later reading of the vehicle was counted and
\* classified from it.
C19_FailedSaveKeepsState ==
    \A g \in Handlers :
        hs[g].save = "failed" =>
            LET v == hs[g].speedData.vehicleId
            IN  /\ \E i \in 1..Len(accepted) : accepted[i].by = g
                /\ hs[g].vehicleState = ReplayState(AcceptedUpTo(g))
                /\ v \in DOMAIN vehicleStates
                /\ vehicleStates[v] = ReplayState(AcceptedOf(v))
                /\ \A h \in Handlers :
                      (h > g /\ hs[h].speedData # Null /\ hs[h].speedData.vehicleId = v) =>
                          /\ hs[h].vehicleState = ReplayState(AcceptedUpTo(h))
                          /\ hs[h].vehicleState.recordCount > hs[g].vehicleState.recordCount
                          /\ hs[h].violation # Null =>
                                hs[h].violation.consecutiveCount
                                    = TrailingRun(AcceptedUpTo(h))

\* The write of a violating reading was rejected; the next violating reading
\* of the vehicle continued its streak and was processed to the end.
C19_Witness ==
    \E g, h \in Handlers :
        /\ g < h
        /\ hs[g].save = "failed"
        /\ hs[g].violation # Null
        /\ hs[h].violation # Null
        /\ hs[h].violation.vehicleId = hs[g].violation.vehicleId
        /\ hs[h].violation.consecutiveCount = hs[g].violation.consecutiveCount + 1
        /\ hs[h].pc = "done"
        /\ hs[h].result = "success"

\* C20 (as the specification states it): every message that goes out on the
\* alert topic has type SIMPLE or CRITICAL.
C20_OnlySimpleOrCritical ==
    [][\A m \in published' \ published : m.type \in {"SIMPLE", "CRITICAL"}]_vars

\* Handler h is suspended at an await of a persistence write or a publish.
Suspended(h) == hs[h].pc \in {"awaitSave", "awaitNotify", "awaitSimple", "awaitCritical"}

VehicleOf(h) == hs[h].speedData.vehicleId

\* C21: a pending persistence write or publish of one vehicle does not block
\* another vehicle.  While a handler of vehicle A is suspended at an await, a
\* message of another vehicle B can be delivered (its state is updated and it is
\* classified in that step), and every step of a handler of B (its write
\* settling, its alert being created, each of its publishes settling) can be
\* taken, whatever the handler of A is waiting for.
C21_NoBlocking ==
    \A h \in Handlers : Suspended(h) =>
        /\ budget > 0 =>
              \A p \in ValidPayloads : p.vehicleId.str # VehicleOf(h) => ENABLED HandleMessage(p, 0)
        /\ \A g \in Handlers \ {h} :
              (hs[g].speedData # Null /\ VehicleOf(g) # VehicleOf(h)) =>
                /\ hs[g].pc = "awaitSave" => ENABLED SaveDone(g, TRUE, 0)
                /\ hs[g].pc = "awaitStrategy" => ENABLED StrategyDone(g)
                /\ hs[g].pc = "awaitNotify" => ENABLED NotifyDone(g, TRUE)
                /\ hs[g].pc = "awaitSimple" => ENABLED SimpleDone(g, TRUE)
                /\ hs[g].pc = "awaitCritical" => ENABLED CriticalDone(g, TRUE)

\* The write of a reading of VEH001 is still pending while a reading of VEH002
\* that was delivered after it has been processed to the end: state updated,
\* classified as a violation, alert and SIMPLE message published.
C21_Witness ==
    \E h, g \in Handlers :
        /\ h < g
        /\ hs[h].pc = "awaitSave" /\ VehicleOf(h) = "VEH001"
        /\ hs[g].pc = "done" /\ hs[g].speedData # Null /\ VehicleOf(g) = "VEH002"
        /\ vehicleStates["VEH002"].recordCount = 1
        /\ hs[g].violation # Null
        /\ hs[g].notify = "ok" /\ hs[g].simple = "ok"
        /\ \E m \in published : m.by = g

\* What the snapshot held by handler h reads now.  updateVehicleState returns
\* { ...currentState }: the numbers are copied into the new object, while its
\* speedHistory is the very array the entry of vehicleStates holds, the one
\* every later update of the vehicle pushes to and shifts.
Snapshot(h) ==
    [hs[h].vehicleState EXCEPT !.speedHistory = vehicleStates[VehicleOf(h)].speedHistory]

\* C22: the snapshot returned by the state update for one reading is immutable:
\* no step changes any part of a snapshot a handler already holds, its
\* recent-speed history included.
C22_SnapshotImmutable ==
    [][\A h \in Handlers : hs[h].vehicleState # Null => Snapshot(h)' = Snapshot(h)]_vars

\* ------------------------------------------------- a vehicle with a history
\* Nine readings of VEH001, all under the limit, that were processed to the end
\* before the run starts.
EarlierSpeeds == <<51, 52, 53, 54, 55, 56, 57, 58, 59>>

EarlierReading(i) ==
    [vehicleId |-> "VEH001", speed |-> EarlierSpeeds[i], timestamp |-> IsoText(0),
     location |-> Null]

\* vehicleStates after the first n of them.
RECURSIVE StatesAfter(_)
StatesAfter(n) ==
    IF n = 0 THEN << >> ELSE updateVehicleState(StatesAfter(n - 1), EarlierReading(n))

\* The state after the nine readings were processed, none of them a violation,
\* and the processor was stopped and started again: start() sets messageCount
\* and errorCount to 0 while the SpeedProcessor keeps its map and counters.
InitHistory ==
    /\ EngineIdle
    /\ now = 0
    /\ ticks = 0
    /\ faults = 0
    /\ budget = MaxMsgs
    /\ hs = [h \in Handlers |-> IdleHandler]
    /\ vehicleStates = StatesAfter(Len(EarlierSpeeds))
    /\ processedCount = Len(EarlierSpeeds)
    /\ violationCount = 0
    /\ messageCount = 0
    /\ errorCount = 0
    /\ alertHistory = << >>
    /\ activeAlerts = << >>
    /\ accepted = [i \in 1..Len(EarlierSpeeds) |-> LogEntry(0, EarlierReading(i))]
    /\ saveLog = [i \in 1..Len(EarlierSpeeds) |-> LogEntry(0, EarlierReading(i))]
    /\ alertSaveLog = << >>
    /\ published = {}
    /\ TransportUp
    /\ MaintenanceIdle

\* The runs of SpecSpeeds and, beside them, those that start with the history.
InitSpeedsOrHistory == Init \/ InitHistory

SpecHistory == InitSpeedsOrHistory /\ [][NextSpeeds]_vars

Min(a, b) == IF a <= b THEN a ELSE b

\* C23: a vehicle's recent-speed history holds at most 10 entries, and they are
\* the most recent accepted readings of the vehicle in arrival order: with n
\* readings accepted it holds the last min(n, 10) of them, oldest first, so
\* once 10 are held each new reading drops the oldest entry.
C23_BoundedHistory ==
    \A v \in DOMAIN vehicleStates :
        LET readings == AcceptedOf(v)
            history == vehicleStates[v].speedHistory
            n == Len(readings)
        IN  /\ Len(history) <= HistoryCapacity
            /\ Len(history) = Min(n, HistoryCapacity)
            /\ \A i \in 1..Len(history) :
                  history[i] = readings[n - Len(history) + i].speed

\* Eleven readings of VEH001 were accepted: the history holds ten, the first
\* reading (51) is gone and the second (52) is now the oldest entry.
C23_Witness ==
    /\ Len(AcceptedOf("VEH001")) = HistoryCapacity + 1
    /\ Len(vehicleStates["VEH001"].speedHistory) = HistoryCapacity
    /\ vehicleStates["VEH001"].speedHistory[1] = EarlierSpeeds[2]
    /\ vehicleStates["VEH001"].speedHistory[HistoryCapacity]
          = AcceptedOf("VEH001")[HistoryCapacity + 1].speed

\* The instant a last-seen value denotes.
InstantOf(lastSeen) == lastSeen.num

\* C24: cleanupOldStates(maxAge) removes exactly the vehicles whose last-seen is
\* older than now - maxAge, returns how many it removed, and leaves every other
\* vehicle's state unchanged.
C24_EvictionSweep ==
    swept # Null =>
        LET old == {v \in DOMAIN swept.before :
                      InstantOf(swept.before[v].lastSeen) < swept.at - swept.maxAge}
        IN  /\ swept.after = [v \in DOMAIN swept.before \ old |-> swept.before[v]]
            /\ swept.returned = Cardinality(old)

\* The alerts the engine holds.
HeldAlerts == {alertHistory[i] : i \in 1..Len(alertHistory)}

\* C25: an alert is ACTIVE when created, and its status only moves forward from
\* ACTIVE to RESOLVED or DISMISSED: no step creates an alert with another
\* status, and no step puts a RESOLVED or DISMISSED alert back to ACTIVE.
C25_StatusForward ==
    [][/\ \A alert \in HeldAlerts' \ HeldAlerts : alert.status = "ACTIVE"
       /\ \A id \in DOMAIN alertRows \cap DOMAIN alertRows' :
             alertRows[id].status \in {"RESOLVED", "DISMISSED"}
                => alertRows'[id].status # "ACTIVE"]_vars

\* C26: no cleanup removes an alert that is still ACTIVE, neither from the
\* engine's history nor from the table: every alert that a step removes is
\* RESOLVED or DISMISSED.
C26_ActiveAlertsKept ==
    [][/\ \A alert \in HeldAlerts \ HeldAlerts' : alert.status \in {"RESOLVED", "DISMISSED"}
       /\ \A id \in DOMAIN alertRows \ DOMAIN alertRows' :
             alertRows[id].status \in {"RESOLVED", "DISMISSED"}]_vars

\* C27: reconnection is bounded.  The reconnect-attempt counter never exceeds
\* maxReconnectAttempts (10); once it has reached the maximum the client is
\* ended, no attempt is under way or waiting, and the transport is not
\* connected; whenever the transport is connected the counter is 0.
C27_BoundedReconnect ==
    /\ reconnectAttempts <= maxReconnectAttempts
    /\ reconnectAttempts >= maxReconnectAttempts => (client = "ended" /\ ~isConnected)
    /\ client = "connected" => reconnectAttempts = 0

\* The call of disconnect has reached end().
HasEnded(record) ==
    record # Null /\ \E i \in 1..Len(record.steps) : record.steps[i] = "end"

\* C28: on shutdown of a connected transport the 'offline' status is published
\* before the connection is ended, and when disconnect completes the client is
\* not connected and its subscription and handler tables are empty.
C28_GracefulShutdown ==
    [][/\ (HasEnded(shutdown') /\ ~HasEnded(shutdown) /\ shutdown'.wasConnected)
           => (shutdown'.steps[1] = "offline" /\ retained' = "offline")
       /\ (call = "stopEnd" /\ call' # "stopEnd")
           => (~isConnected' /\ subscriptions' = {} /\ messageHandlers' = {})]_vars

\* A started, connected and subscribed processor was stopped: 'offline' was
\* published, then the connection ended, then the tables were cleared.
C28_Witness ==
    /\ shutdown # Null
    /\ shutdown.wasConnected
    /\ shutdown.steps = <<"offline", "end", "cleared">>
    /\ retained = "offline"
    /\ ~isConnected /\ subscriptions = {} /\ messageHandlers = {}
    /\ ~isRunning

\* The payload has a valid vehicleId and a valid speed: without its optional
\* members it is accepted.
ValidReading(p) ==
    LET data == parseSpeedMessage(ClientParse(WithMembers(p, Undefined, Undefined)), 0)
    IN  data # Null /\ validateSpeedData(data).isValid

\* Handler h is called in this step.
Called(h) == hs[h].pc = "idle" /\ hs'[h].pc # "idle"

\* The payload's location has exactly one of lat and lng.
HalfLocation(p) ==
    /\ p.location # Undefined
    /\ (p.location.lat = Undefined) # (p.location.lng = Undefined)

\* C29: a payload whose location has only one of latitude and longitude (and
\* whose required members and timestamp are valid) is accepted as a valid
\* reading with its location dropped: it is not rejected, and the vehicle's
\* state is updated for it.
C29_IncompleteLocationDropped ==
    [][\A h \in Handlers :
          (/\ Called(h)
           /\ ValidReading(hs'[h].payload)
           /\ HalfLocation(hs'[h].payload)
           /\ hs'[h].payload.timestamp \in {Undefined, IsoText(7), Num(7)})
          => /\ hs'[h].speedData # Null
             /\ hs'[h].speedData.location = Null
             /\ accepted' = Append(accepted, LogEntry(h, hs'[h].speedData))
             /\ vehicleStates' = updateVehicleState(vehicleStates, hs'[h].speedData)]_vars

\* C30: a payload with valid vehicleId and speed whose timestamp is absent or
\* is text that is no date is accepted as a valid reading, with the time of
\* ingestion as its timestamp.
C30_TimestampDefaults ==
    [][\A h \in Handlers :
          (/\ Called(h)
           /\ ValidReading(hs'[h].payload)
           /\ hs'[h].payload.location \in {Undefined, Loc(Num(10), Num(20))}
           /\ hs'[h].payload.timestamp \in {Undefined, Str("soon")})
          => /\ hs'[h].speedData # Null
             /\ hs'[h].speedData.timestamp = IsoText(now')
             /\ accepted' = Append(accepted, LogEntry(h, hs'[h].speedData))]_vars

\* Call k of start() throws in this step.
Rejects(k) == InFlight(k) /\ startCalls'[k].at = "rejected"

\* Call k of start() returns in this step after its subscribe() resolved.
Resolves(k) == startCalls[k].at = "subscribe" /\ startCalls'[k].at = "resolved"

\* Call k of start() is made in this step.
Issued(k) == startCalls[k].at = "idle" /\ startCalls'[k].at # "idle"

\* The processing of handler h's message has failed: it could not be parsed, it
\* failed validation, or processSpeedData caught an error.
Failed(h) == hs[h].result \in {"invalid", "validation", "error"}

\* Handler h takes a step: it is called, or one of its awaits settles.
Steps(h) == hs'[h] # hs[h]

\* C31: the statistics counters account for every message.  Each message handed
\* to the handler raises the message count by exactly one, and nothing else
\* changes it but the reset of start(); a step of a handler raises the error
\* count by exactly one when the processing of its message fails in that step
\* and leaves it alone otherwise; the error count never exceeds the message
\* count, and the violation count never exceeds the processed count.
C31_CountersAccount ==
    [][/\ \A h \in Handlers : Called(h) => messageCount' = messageCount + 1
       /\ \A h \in Handlers :
             Steps(h) => errorCount' = errorCount + (IF Failed(h)' /\ ~Failed(h) THEN 1 ELSE 0)
       /\ (\A h \in Handlers : ~Called(h)) /\ (\A k \in DOMAIN startCalls : ~Resolves(k))
             => messageCount' = messageCount
       /\ errorCount' <= messageCount'
       /\ violationCount' <= processedCount']_vars

Checked(h) == hs[h].engine = "none" /\ hs'[h].engine # "none"

\* Handler g holds a violation of the same vehicle from a reading accepted
\* before the one of handler h (handlers are numbered in the order of their
\* calls), and its suppression check is still to come: it waits for its write.
AwaitsCheckBefore(g, h) ==
    /\ g < h
    /\ hs[g].pc = "awaitSave"
    /\ hs[g].violation # Null
    /\ hs[g].violation.vehicleId = hs[h].violation.vehicleId

\* C33: the violations of one vehicle are evaluated by the alert engine in the
\* order in which their readings were accepted: the suppression check of a
\* reading never runs while an earlier accepted violation of the same vehicle
\* still waits for its own check, even when the later reading's persistence
\* write completes first.
C33_EvaluatedInOrder ==
    [][\A h \in Handlers :
          Checked(h) => \A g \in Handlers : ~AwaitsCheckBefore(g, h)]_vars

\* The running processor with the readings of both vehicles, rejections and the
\* clock moving, from the states of SpecSpeeds and from the one with the history.
SpecVehicles == InitSpeedsOrHistory /\ [][Next]_vars

\* What holds of one vehicle's state record.
WellFormed(state) ==
    /\ 0 <= state.consecutiveViolations
    /\ state.consecutiveViolations <= state.totalViolations
    /\ state.totalViolations <= state.recordCount
    /\ Len(state.speedHistory) = Min(state.recordCount, HistoryCapacity)
    /\ \A i \in 1..Len(state.speedHistory) : state.maxSpeed >= state.speedHistory[i]

\* The state update for a reading of handler h's vehicle runs in this step.
Updates(h) == Called(h) /\ hs'[h].speedData # Null

\* C37: in every reachable state and for every tracked vehicle,
\* 0 <= consecutive violations <= lifetime violations <= sample count, the
\* history length is min(sample count, 10), and the maximum speed is at least
\* every speed in the history; and processing a reading of one vehicle leaves
\* the state of every other vehicle unchanged.
C37_StateWellFormed ==
    [][/\ \A v \in DOMAIN vehicleStates : WellFormed(vehicleStates[v])
       /\ \A v \in DOMAIN vehicleStates' : WellFormed(vehicleStates'[v])
       /\ \A h \in Handlers :
             Updates(h) =>
                \A v \in DOMAIN vehicleStates \ {hs'[h].speedData.vehicleId} :
                    v \in DOMAIN vehicleStates' /\ vehicleStates'[v] = vehicleStates[v]]_vars

\* VEH001 has sent ten readings, which fill its history, the last of them over
\* the limit after one that was not, and VEH002 is tracked beside it.
C37_Witness ==
    /\ DOMAIN vehicleStates = {"VEH001", "VEH002"}
    /\ vehicleStates["VEH001"].recordCount = HistoryCapacity
    /\ Len(vehicleStates["VEH001"].speedHistory) = HistoryCapacity
    /\ vehicleStates["VEH001"].consecutiveViolations = 1
    /\ vehicleStates["VEH001"].totalViolations = 1
    /\ vehicleStates["VEH002"].recordCount = 1

\* Every reading of a run is received at time 0 or later, so at a sweep whose
\* cutoff at - maxAge lies before 0 every tracked vehicle's most recent reading
\* was received less than maxAge ago.
AllRecent(sweep) == sweep.at - sweep.maxAge < 0

EntersNotifications(h) == hs[h].pc = "awaitStrategy" /\ hs'[h].pc = "awaitNotify"
LeavesNotifications(h) == hs[h].pc = "awaitNotify" /\ hs'[h].pc # "awaitNotify"

\* C39: when an alert is sent, the failure of one notification channel (the
\* MQTT publish or any one handler) does not keep the remaining channels from
\* being attempted: when sendNotifications returns, every channel has been
\* attempted; and the alert is in the alert history and in the vehicle's
\* suppression entry before any channel is attempted.
C39_ChannelsIndependent ==
    [][\A h \in Handlers :
          /\ LeavesNotifications(h) =>
                /\ Len(notified'[h]) = 1 + Len(NotificationHandlers)
                /\ \A i \in 1..Len(NotificationHandlers) :
                      notified'[h][i + 1].type = NotificationHandlers[i]
          /\ EntersNotifications(h) =>
                /\ notified'[h] = << >>
                /\ hs[h].violation.vehicleId \in DOMAIN activeAlerts'
                /\ \E i \in 1..Len(alertHistory') :
                      /\ alertHistory'[i].by = h
                      /\ activeAlerts'[hs[h].violation.vehicleId].alertId
                            = alertHistory'[i].id]_vars

\* C40: the speed limit that decides that a reading is a violation
\* (SpeedProcessor's) and the one that decides that the SIMPLE message is
\* published (MqttSpeedProcessor's) are equal in every reachable state, also
\* after updateConfiguration; every violation of a successfully processed
\* reading has led to the publication of one SIMPLE message; and
\* updateConfiguration leaves a setting unchanged when its new value is missing
\* or not positive.
C40_LimitsAgree ==
    /\ config.speedLimit = speedLimit
    /\ \A h \in Handlers :
          (hs[h].pc = "done" /\ hs[h].result = "success" /\ hs[h].violation # Null)
            => /\ hs[h].simple = "ok"
               /\ SimplePayload(h, hs[h].violation) \in published
    /\ \A newConfig \in NewConfigs :
          /\ ~Positive(newConfig.speedLimit)
                => updateConfiguration(config, newConfig).speedLimit = config.speedLimit
          /\ ~Positive(newConfig.consecutiveLimit)
                => updateConfiguration(config, newConfig).consecutiveLimit
                      = config.consecutiveLimit


\* The client objects that hold a connection to the broker or keep trying to
\* get one, and those of them that hold a subscription to the speed topic.
Live == {c \in ClientIds : clients[c].state # "ended"}

Subscribed == {c \in Live : SpeedTopic \in clients[c].topics}

\* C34: start() is idempotent under any number of calls, overlapping ones
\* included: the calls create at most one connection to the broker and at
\* most one subscription to the speed topic, so that a message is handled
\* once.
C34_StartIdempotent ==
    /\ Cardinality(Live) <= 1
    /\ Cardinality(Subscribed) <= 1

\* C35: when a call of stop() on a running processor is over, whether it
\* returned or threw, the processor is not running, the broker connection is
\* ended and both repositories are closed.
C35_StopAlwaysStops ==
    [][(call # "none" /\ call' = "none")
           => /\ ~isRunning'
              /\ client' = "ended"
              /\ repositories'.speed = "closed"
              /\ repositories'.alert = "closed"]_vars

\* C36: the processor becomes running only in the step in which a call of
\* start() returns after the repositories were initialised, the broker
\* connection was made and the speed topic was subscribed, in that order; when
\* a call of start() throws the processor is not running, before and after;
\* and a call made while the processor is not running begins with the first
\* step again.
C36_RunningAfterAllSteps ==
    [][/\ (isRunning' /\ ~isRunning)
           => \E k \in DOMAIN startCalls :
                 /\ Resolves(k)
                 /\ startCalls'[k].trail = <<"initSpeed", "initAlert", "connect", "subscribe">>
                 /\ clients'[startCalls[k].target].state = "connected"
                 /\ SpeedTopic \in clients'[startCalls[k].target].topics
       /\ \A k \in DOMAIN startCalls : Rejects(k) => (~isRunning /\ ~isRunning')
       /\ \A k \in DOMAIN startCalls :
             (Issued(k) /\ ~isRunning)
                => (startCalls'[k].at = "initSpeed" /\ startCalls'[k].trail = << >>)]_vars

====
